---- MODULE Spec2Model ----
(***************************************************************************)
(* Model of nkjain92/podcaster:                                            *)
(*   src/src/extract/extract_founder.py  (chunker, completion client,     *)
(*                                        timeline merge, orchestrator)    *)
(*   src/src/extract/founder_types.py    (TimelineEvent equality / hash)  *)
(*   src/transcriptions.py               (transcribe_audio, batch main)   *)
(*   src/download_podcasts.py            (PodcastDownloader)              *)
(*                                                                         *)
(* The specifications of the module:                                       *)
(*   SpecClient     the blocking and the awaitable completion client run  *)
(*                  against one script of service outcomes;               *)
(*   SpecChunk      chunk_transcript, one loop iteration per step;        *)
(*   Spec           extract_founder_data, one completion attempt per      *)
(*                  step; SpecLive adds the fairness of its steps;        *)
(*   SpecMerge, SpecAssemble, SpecExtract                                  *)
(*                  the timeline merge, the assembly of the Founder and   *)
(*                  the list extractors on drawn inputs;                  *)
(*   SpecTranscribe transcribe_audio, one request per step;               *)
(*   SpecBatch      the batch run of transcriptions.py and its reruns;    *)
(*   SpecDownload   download_all, its batches and its tracking file.      *)
(***************************************************************************)
EXTENDS Integers, Sequences, FiniteSets, TLC

----------------------------------------------------------------------------
(* Text.  A text is a sequence of symbols.  In a completion response the   *)
(* symbols are characters; the character "@" stands for the member list of *)
(* a JSON object, whose decoded value is carried beside the text.  In a    *)
(* transcript the symbols are tokens of the encoding (see count_tokens).   *)

IsSpace(c) == c \in {" ", "\n"}

\* str.strip(): drop leading and trailing whitespace.
strip(s) ==
    LET keep == {i \in 1..Len(s) : ~IsSpace(s[i])}
    IN  IF keep = {} THEN <<>>
        ELSE LET lo == CHOOSE i \in keep : \A j \in keep : i <= j
                 hi == CHOOSE i \in keep : \A j \in keep : j <= i
             IN  SubSeq(s, lo, hi)

\* str.startswith(prefix)
startswith(s, prefix) ==
    /\ Len(s) >= Len(prefix)
    /\ SubSeq(s, 1, Len(prefix)) = prefix

\* str.split(sep) for a one-symbol separator: n separators give n+1 pieces.
\* (A value that a recursion or an action reads several times is bound by
\* a quantifier over a singleton, here and below: TLC then computes it
\* once, also when it evaluates ENABLED.)
RECURSIVE split(_, _)
split(s, sep) ==
    LET at == {i \in 1..Len(s) : s[i] = sep}
    IN  IF at = {} THEN <<s>>
        ELSE LET i == CHOOSE k \in at : \A j \in at : k <= j
             IN  CHOOSE r \in {<<SubSeq(s, 1, i - 1)>> \o split(rest, sep) :
                                  rest \in {SubSeq(s, i + 1, Len(s))}} : TRUE

\* sep.join(parts)
RECURSIVE join(_, _)
join(parts, sep) ==
    IF Len(parts) = 0 THEN <<>>
    ELSE IF Len(parts) = 1 THEN parts[1]
    ELSE parts[1] \o <<sep>> \o join(Tail(parts), sep)

\* list[1:-1]
InnerSlice(l) == SubSeq(l, 2, Len(l) - 1)

\* The code-fence marker: three backquote characters (a backquote is written "BQ").
Fence == <<"BQ", "BQ", "BQ">>

----------------------------------------------------------------------------
(* The completion service.  One outcome per attempt: the call raises, or   *)
(* it answers with a text.  An outcome names the body it carries and the   *)
(* way the service wrapped it; Render builds the answered text from them.  *)

\* Number of distinct JSON documents the service may answer with.
MaxDocs == 2

\* The exceptions the transport may raise.
ServiceErrors == {"APIError", "APITimeoutError"}

NoValue == [none |-> TRUE]
NoError == [exc |-> "none", attempt |-> 0]

\* Decoded values of the documents used to exercise the client alone.
ClientDocs == {[doc |-> i] : i \in 1..MaxDocs}

\* Body shapes: a JSON object on one line, a JSON object over three
\* lines, prose, nothing, blanks only.
BodyShapes == {"json", "json_lines", "prose", "empty", "blank"}

BodyText(shape) ==
    CASE shape = "json"       -> <<"{", "@", "}">>
      [] shape = "json_lines" -> <<"{", "\n", "@", "\n", "}">>
      [] shape = "prose"      -> <<"x", " ", "x">>
      [] shape = "empty"      -> <<>>
      [] shape = "blank"      -> <<" ", "\n">>

\* Wrappers the service may put around a body.  The first four are the
\* unwrapped body and well-formed fenced blocks (each fence on a line of
\* its own); the last three are ill-formed blocks.
WellFormedFences == {"fenced", "fenced_json", "fenced_padded"}
IllFormedFences  == {"fence_inline", "fence_unclosed", "fence_trailing"}
Wrappers == {"plain"} \cup WellFormedFences \cup IllFormedFences

Wrap(body, w) ==
    CASE w = "plain"          -> body
      [] w = "fenced"         -> Fence \o <<"\n">> \o body \o <<"\n">> \o Fence
      [] w = "fenced_json"    -> Fence \o <<"j", "\n">> \o body \o <<"\n">> \o Fence
      [] w = "fenced_padded"  -> <<" ", "\n">> \o Fence \o <<"\n">> \o body
                                    \o <<"\n">> \o Fence \o <<" ", "\n">>
      [] w = "fence_inline"   -> Fence \o body \o Fence
      [] w = "fence_unclosed" -> Fence \o <<"\n">> \o body
      [] w = "fence_trailing" -> Fence \o <<"\n">> \o body \o <<"\n">> \o Fence
                                    \o <<"\n", "x">>

Raises(e) == [type |-> "raise", exc |-> e, shape |-> "empty", wrap |-> "plain",
              doc |-> NoValue]
Answers(shape, w, d) == [type |-> "answer", exc |-> "none", shape |-> shape,
                         wrap |-> w, doc |-> d]

\* response.choices[0].message.content
Render(o) == Wrap(BodyText(o.shape), o.wrap)

\* Outcomes offered to a client exercised alone: the transport errors, the
\* bodies that are not JSON (bare, and inside a well-formed fence), every
\* JSON body in every well-formed wrapper, and in every ill-formed one.
ClientOutcomes ==
    {Raises(e) : e \in ServiceErrors}
    \cup {Answers(sh, "plain", NoValue) : sh \in {"prose", "empty", "blank"}}
    \cup {Answers(sh, "fenced", NoValue) : sh \in {"prose", "empty"}}
    \cup {Answers(sh, w, d) : sh \in {"json", "json_lines"},
                              w \in {"plain"} \cup WellFormedFences,
                              d \in ClientDocs}
    \cup {Answers(sh, w, [doc |-> 1]) : sh \in {"json", "json_lines"},
                                        w \in IllFormedFences}

----------------------------------------------------------------------------
(* json.loads on a text whose member list "@" decodes to doc.              *)

JsonTokens(text) == SelectSeq(text, LAMBDA c : ~IsSpace(c))

JsonDecodes(text) == JsonTokens(text) \in {<<"{", "@", "}">>, <<"{", "}">>}

EmptyObject == [k \in {} |-> 0]

json_loads(text, doc) ==
    IF JsonTokens(text) = <<"{", "@", "}">> THEN doc ELSE EmptyObject

----------------------------------------------------------------------------
(* The completion client.  A call is a record: attempt counts the loop     *)
(* iterations made, status is running / returned / raised, value is what   *)
(* was returned, error is the exception raised to the caller together with *)
(* the attempt that produced it.                                           *)

\* max_retries: int = 3
DefaultMaxRetries == 3

PyNone == [none |-> TRUE]
\* A call about to make its first attempt; prompt describes the request.
NewCall(prompt) == [attempt |-> 0, status |-> "running", value |-> NoValue,
                    error |-> NoError, prompt |-> prompt]

\* The body of the try block: the service call, the emptiness check, the
\* fence removal and the decoding.
TryCompletion(o) ==
    IF o.type = "raise" THEN [ok |-> FALSE, exc |-> o.exc, value |-> NoValue]
    ELSE LET content == strip(Render(o))
         IN  IF content = <<>>
             THEN [ok |-> FALSE, exc |-> "ValueError", value |-> NoValue]
             ELSE LET sanitized ==
                          IF startswith(content, Fence)
                          THEN join(InnerSlice(split(content, "\n")), "\n")
                          ELSE content
                  IN  IF JsonDecodes(sanitized)
                      THEN [ok |-> TRUE, exc |-> "none",
                            value |-> json_loads(sanitized, o.doc)]
                      ELSE [ok |-> FALSE, exc |-> "JSONDecodeError", value |-> NoValue]

\* A plausible slip: the value of a successful attempt is kept and
\* returned after the loop, which goes on through its attempts.
extract_with_retries_ReturnsAfterLoop(c, o, max_retries) ==
    LET r == TryCompletion(o)
        last == c.attempt = max_retries - 1
        value == IF r.ok THEN r.value ELSE c.value
    IN  IF last /\ value # NoValue
        THEN [c EXCEPT !.attempt = @ + 1, !.status = "returned", !.value = value]
        ELSE IF last
        THEN [c EXCEPT !.attempt = @ + 1, !.status = "raised",
                       !.error = [exc |-> r.exc, attempt |-> c.attempt + 1]]
        ELSE [c EXCEPT !.attempt = @ + 1, !.value = value]

\* A plausible slip: the handler gives up one attempt early.
extract_with_retries_GivesUpEarly(c, o, max_retries) ==
    LET r == TryCompletion(o)
    IN  IF r.ok
        THEN [c EXCEPT !.attempt = @ + 1, !.status = "returned", !.value = r.value]
        ELSE IF c.attempt >= max_retries - 2
        THEN [c EXCEPT !.attempt = @ + 1, !.status = "raised",
                       !.error = [exc |-> r.exc, attempt |-> c.attempt + 1]]
        ELSE [c EXCEPT !.attempt = @ + 1]

\* A plausible slip: a decode failure is handed back instead of retried.
extract_with_retries_ReturnsFailure(c, o, max_retries) ==
    LET r == TryCompletion(o)
    IN  IF r.ok \/ r.exc = "JSONDecodeError"
        THEN [c EXCEPT !.attempt = @ + 1, !.status = "returned", !.value = r.value]
        ELSE IF c.attempt = max_retries - 1
        THEN [c EXCEPT !.attempt = @ + 1, !.status = "raised",
                       !.error = [exc |-> r.exc, attempt |-> c.attempt + 1]]
        ELSE [c EXCEPT !.attempt = @ + 1]

\* A plausible slip: the fence is not removed.
extract_with_retries_KeepsFence(c, o, max_retries) ==
    LET r == IF o.type = "answer" /\ startswith(strip(Render(o)), Fence)
             THEN [ok |-> FALSE, exc |-> "JSONDecodeError", value |-> NoValue]
             ELSE TryCompletion(o)
    IN  IF r.ok
        THEN [c EXCEPT !.attempt = @ + 1, !.status = "returned", !.value = r.value]
        ELSE IF c.attempt = max_retries - 1
        THEN [c EXCEPT !.attempt = @ + 1, !.status = "raised",
                       !.error = [exc |-> r.exc, attempt |-> c.attempt + 1]]
        ELSE [c EXCEPT !.attempt = @ + 1]

\* One iteration of the loop of extract_with_retries, the loop variable
\* being c.attempt, with outcome o of the service call.  After the last
\* iteration without a return or a raise the function ends, returning None.
extract_with_retries(c, o, max_retries) ==
    CHOOSE x \in {
        IF r.ok
        THEN [c EXCEPT !.attempt = @ + 1, !.status = "returned", !.value = r.value]
        ELSE IF c.attempt = max_retries - 1
        THEN [c EXCEPT !.attempt = @ + 1, !.status = "raised",
                       !.error = [exc |-> r.exc, attempt |-> c.attempt + 1]]
        ELSE IF c.attempt + 1 < max_retries
        THEN [c EXCEPT !.attempt = @ + 1]
        ELSE [c EXCEPT !.attempt = @ + 1, !.status = "returned", !.value = PyNone]
        : r \in {TryCompletion(o)}} : TRUE

\* The body of the try block of extract_with_retries_async.
TryCompletionAsync(o, extraction_type) ==
    IF o.type = "raise" THEN [ok |-> FALSE, exc |-> o.exc, value |-> NoValue]
    ELSE LET content == strip(Render(o))
         IN  IF content = <<>>
             THEN [ok |-> FALSE, exc |-> "ValueError", value |-> NoValue]
             ELSE LET sanitized ==
                          IF startswith(content, Fence)
                          THEN join(InnerSlice(split(content, "\n")), "\n")
                          ELSE content
                  IN  IF JsonDecodes(sanitized)
                      THEN [ok |-> TRUE, exc |-> "none",
                            value |-> [extraction_type |-> extraction_type,
                                       data |-> json_loads(sanitized, o.doc)]]
                      ELSE [ok |-> FALSE, exc |-> "JSONDecodeError", value |-> NoValue]

\* A plausible slip: the awaitable client skips the emptiness check.
extract_with_retries_async_Diverges(c, o, extraction_type, max_retries) ==
    LET r == TryCompletionAsync(o, extraction_type)
    IN  IF r.ok
        THEN [c EXCEPT !.attempt = @ + 1, !.status = "returned", !.value = r.value]
        ELSE IF c.attempt = max_retries - 1
        THEN [c EXCEPT !.attempt = @ + 1, !.status = "raised",
                       !.error = [exc |-> IF r.exc = "ValueError"
                                          THEN "JSONDecodeError" ELSE r.exc,
                                  attempt |-> c.attempt + 1]]
        ELSE [c EXCEPT !.attempt = @ + 1]

\* One iteration of the loop of extract_with_retries_async.
extract_with_retries_async(c, o, extraction_type, max_retries) ==
    CHOOSE x \in {
        IF r.ok
        THEN [c EXCEPT !.attempt = @ + 1, !.status = "returned", !.value = r.value]
        ELSE IF c.attempt = max_retries - 1
        THEN [c EXCEPT !.attempt = @ + 1, !.status = "raised",
                       !.error = [exc |-> r.exc, attempt |-> c.attempt + 1]]
        ELSE IF c.attempt + 1 < max_retries
        THEN [c EXCEPT !.attempt = @ + 1]
        ELSE [c EXCEPT !.attempt = @ + 1, !.status = "returned", !.value = PyNone]
        : r \in {TryCompletionAsync(o, extraction_type)}} : TRUE

----------------------------------------------------------------------------
(* The chunker.  A transcript is a sequence of tokens of the encoding:     *)
(* a word ("a", "b"), the paragraph separator "\n\n" (one token of the     *)
(* encoding), or "P", a passage of LongPassageTokens tokens that holds no  *)
(* paragraph separator.                                                    *)

ParagraphSep == "\n\n"

\* Tokens in one long passage: more than half of the default budget.
LongPassageTokens == 60000

\* Longest transcript, in symbols, and largest budget given to the chunker
\* when it is exercised alone.
MaxTranscriptLen == 4
MaxBudget == 3

TokenWeight(sym) == IF sym = "P" THEN LongPassageTokens ELSE 1

\* len(encoding.encode(text))
RECURSIVE count_tokens(_)
count_tokens(text) ==
    IF text = <<>> THEN 0 ELSE TokenWeight(Head(text)) + count_tokens(Tail(text))

\* max_tokens: int = 100000
DefaultMaxTokens == 100000

\* The state of chunk_transcript before its loop.
ChunkStart(transcript) ==
    [paragraphs |-> split(transcript, ParagraphSep), i |-> 1, chunks |-> <<>>,
     current_chunk |-> <<>>, current_tokens |-> 0, done |-> FALSE]

\* A plausible slip: a chunk is closed as soon as the budget is reached.
ChunkParagraph_ClosesAtBudget(st, max_tokens) ==
    LET para == st.paragraphs[st.i]
        para_tokens == count_tokens(para)
    IN  IF st.current_tokens + para_tokens >= max_tokens
        THEN [st EXCEPT !.chunks = Append(@, join(st.current_chunk, ParagraphSep)),
                        !.current_chunk = <<para>>,
                        !.current_tokens = para_tokens,
                        !.i = @ + 1]
        ELSE [st EXCEPT !.current_chunk = Append(@, para),
                        !.current_tokens = @ + para_tokens,
                        !.i = @ + 1]

\* One iteration of the loop over the paragraphs.
ChunkParagraph(st, max_tokens) ==
    LET para == st.paragraphs[st.i]
        para_tokens == count_tokens(para)
    IN  IF st.current_tokens + para_tokens > max_tokens
        THEN [st EXCEPT !.chunks = Append(@, join(st.current_chunk, ParagraphSep)),
                        !.current_chunk = <<para>>,
                        !.current_tokens = para_tokens,
                        !.i = @ + 1]
        ELSE [st EXCEPT !.current_chunk = Append(@, para),
                        !.current_tokens = @ + para_tokens,
                        !.i = @ + 1]

\* A plausible slip: the last chunk is emitted only if its text is not
\* empty.
ChunkFinish_SkipsEmptyText(st) ==
    IF join(st.current_chunk, ParagraphSep) # <<>>
    THEN [st EXCEPT !.chunks = Append(@, join(st.current_chunk, ParagraphSep)),
                    !.done = TRUE]
    ELSE [st EXCEPT !.done = TRUE]

\* After the loop: the last chunk is emitted and the chunks returned.
ChunkFinish(st) ==
    IF st.current_chunk # <<>>
    THEN [st EXCEPT !.chunks = Append(@, join(st.current_chunk, ParagraphSep)),
                    !.done = TRUE]
    ELSE [st EXCEPT !.done = TRUE]

RECURSIVE ChunkLoop(_, _)
ChunkLoop(st, max_tokens) ==
    IF st.i > Len(st.paragraphs) THEN ChunkFinish(st)
    ELSE CHOOSE r \in {ChunkLoop(next, max_tokens) :
                         next \in {ChunkParagraph(st, max_tokens)}} : TRUE

chunk_transcript(transcript, max_tokens) ==
    ChunkLoop(ChunkStart(transcript), max_tokens).chunks

----------------------------------------------------------------------------
(* Timeline events.  A JSON object is a function from its keys to its     *)
(* values; a string that the code compares for order (the date) is the    *)
(* sequence of its code points; None is the string "<None>".              *)

None == "<None>"

Date1999    == <<49, 57, 57, 57>>
Date1999_06 == <<49, 57, 57, 57, 45, 48, 54>>
Date2000    == <<50, 48, 48, 48>>

\* class EventType(Enum), class DataType(Enum): the declared member names.
EventTypeNames == {"FOUNDING", "PIVOT", "CRISIS", "SUCCESS", "OTHER"}
DataTypeNames  == {"FACTUAL", "SPECULATIVE", "INFERRED"}

\* class TraitCategory(Enum), class TraitOrigin(Enum)
TraitCategoryNames == {"TRAIT", "SKILL"}
TraitOriginNames   == {"INNATE", "DEVELOPED"}

\* The fields of TimelineEvent, in declaration order.
EventFields == <<"date", "event_type", "description", "emotional_context",
                 "trait_changes", "alternative_paths", "external_triggers",
                 "source", "confidence", "data_type">>

\* An event as the service describes it, and one variant of it per field,
\* differing from it in that field alone.
BaseEventData ==
    [date |-> Date1999, event_type |-> "FOUNDING", description |-> "founded Zip2",
     emotional_context |-> "determined",
     trait_changes |-> <<[trait |-> "work ethic", change |-> "intense"]>>,
     alternative_paths |-> <<"PhD">>, external_triggers |-> <<"internet">>,
     source |-> "quote", confidence |-> "0.9", data_type |-> "FACTUAL"]

VariantEventData(f) ==
    CASE f = "date"              -> [BaseEventData EXCEPT !.date = Date2000]
      [] f = "event_type"        -> [BaseEventData EXCEPT !.event_type = "PIVOT"]
      [] f = "description"       -> [BaseEventData EXCEPT !.description = "started Zip2"]
      [] f = "emotional_context" -> [BaseEventData EXCEPT !.emotional_context = None]
      [] f = "trait_changes"     -> [BaseEventData EXCEPT !.trait_changes = <<>>]
      [] f = "alternative_paths" -> [BaseEventData EXCEPT !.alternative_paths = <<"PhD", "job">>]
      [] f = "external_triggers" -> [BaseEventData EXCEPT !.external_triggers = <<>>]
      [] f = "source"            -> [BaseEventData EXCEPT !.source = "other quote"]
      [] f = "confidence"        -> [BaseEventData EXCEPT !.confidence = "0.5"]
      [] f = "data_type"         -> [BaseEventData EXCEPT !.data_type = "INFERRED"]

FieldNames == {EventFields[i] : i \in 1..Len(EventFields)}

\* dict.get(key, default)
Get(d, key, default) == IF key \in DOMAIN d THEN d[key] ELSE default

\* TimelineEvent(...) inside the try block of extract_timeline: TRUE when
\* the construction raises nothing.
EventMaps(ed) ==
    /\ {"date", "event_type", "description", "source", "confidence", "data_type"}
           \subseteq DOMAIN ed
    /\ ed.event_type \in EventTypeNames
    /\ ed.data_type \in DataTypeNames
    /\ LET tcs == Get(ed, "trait_changes", <<>>)
       IN  \A i \in 1..Len(tcs) : DOMAIN tcs[i] = {"trait", "change"}

MapEvent(ed) ==
    [date |-> ed.date, event_type |-> ed.event_type, description |-> ed.description,
     emotional_context |-> Get(ed, "emotional_context", None),
     trait_changes |-> Get(ed, "trait_changes", <<>>),
     alternative_paths |-> Get(ed, "alternative_paths", <<>>),
     external_triggers |-> Get(ed, "external_triggers", <<>>),
     source |-> ed.source, confidence |-> ed.confidence, data_type |-> ed.data_type]

\* The loop of extract_timeline over result.get("events", []): each element
\* is mapped inside its own try block and skipped when the mapping raises.
RECURSIVE MapEvents(_)
MapEvents(eds) ==
    IF eds = <<>> THEN <<>>
    ELSE IF EventMaps(Head(eds)) THEN <<MapEvent(Head(eds))>> \o MapEvents(Tail(eds))
    ELSE MapEvents(Tail(eds))

extract_timeline_events(result) == MapEvents(Get(result, "events", <<>>))

\* TimelineEvent.__hash__: the hash of the tuple of the ten fields.
TimelineEvent_hash(e) ==
    <<e.date, e.event_type, e.description, e.emotional_context, e.trait_changes,
      e.alternative_paths, e.external_triggers, e.source, e.confidence, e.data_type>>

\* TimelineEvent.__eq__ as generated by dataclass: the tuples of all the
\* fields are equal.
TimelineEvent_eq(a, b) ==
    <<a.date, a.event_type, a.description, a.emotional_context, a.trait_changes,
      a.alternative_paths, a.external_triggers, a.source, a.confidence, a.data_type>>
    = <<b.date, b.event_type, b.description, b.emotional_context, b.trait_changes,
        b.alternative_paths, b.external_triggers, b.source, b.confidence, b.data_type>>

\* A plausible slip: two events with the same date and description are
\* taken for the same event.
SameEvent_NearDuplicate(a, b) ==
    a.date = b.date /\ a.description = b.description

\* Membership test of a set of TimelineEvent: equal hashes and __eq__.
SameEvent(a, b) ==
    TimelineEvent_hash(a) = TimelineEvent_hash(b) /\ TimelineEvent_eq(a, b)

\* set(all_timeline_events): an element is added unless an equal one is in.
PySet(events) ==
    {events[i] : i \in {k \in 1..Len(events) :
                          \A j \in 1..(k - 1) : ~SameEvent(events[j], events[k])}}

\* A plausible slip: dates are ordered by length first, as numbers are.
StrLess_ShorterFirst(a, b) ==
    IF Len(a) # Len(b) THEN Len(a) < Len(b)
    ELSE \E k \in 1..Len(a) :
            /\ \A j \in 1..(k - 1) : a[j] = b[j]
            /\ a[k] < b[k]

\* str < str: code-point-wise lexicographic order.
RECURSIVE StrLess(_, _)
StrLess(a, b) ==
    IF b = <<>> THEN FALSE
    ELSE IF a = <<>> THEN TRUE
    ELSE IF Head(a) # Head(b) THEN Head(a) < Head(b)
    ELSE StrLess(Tail(a), Tail(b))

\* sorted(set, key=lambda x: x.date): the sort is stable, and a set iterates
\* in an order that the hash seed of the process decides, so events with
\* equal dates may come out in any order.
SortedByDate(S) ==
    {s \in [1..Cardinality(S) -> S] :
        /\ \A i, j \in 1..Cardinality(S) : i # j => s[i] # s[j]
        /\ \A i \in 1..(Cardinality(S) - 1) : ~StrLess(s[i + 1].date, s[i].date)}

----------------------------------------------------------------------------
(* Basic info and the concurrently extracted facets.                       *)

NoEra == [none |-> TRUE]

\* BasicInfo(name=result["name"], domain=result["domain"], ...): TRUE when
\* the construction raises nothing.
BasicInfoMaps(result) ==
    /\ {"name", "domain"} \subseteq DOMAIN result
    /\ "era" \in DOMAIN result =>
          /\ "start" \in DOMAIN result.era
          /\ DOMAIN result.era \subseteq {"start", "end"}

\* The exception of a construction that raises: result["name"] and
\* result["domain"] are read first, then Era(**result["era"]) is built.
BasicInfoError(result) ==
    IF {"name", "domain"} \subseteq DOMAIN result THEN "TypeError" ELSE "KeyError"

MapBasicInfo(result) ==
    [name |-> result.name, domain |-> result.domain,
     financial_background |-> Get(result, "financial_background", None),
     era |-> IF "era" \in DOMAIN result
             THEN [start |-> result.era.start, end |-> Get(result.era, "end", None)]
             ELSE NoEra]

\* The extraction types of the tasks of extract_all_components, in order.
FacetTasks == <<"traits", "beliefs", "philosophies", "failures", "key_decisions",
                "mentors", "habits", "approaches", "anecdotes",
                "emotional_intelligence">>

\* The tasks whose requests the model follows.
ModelledFacets == {"traits", "beliefs", "emotional_intelligence"}

\* The list facets of the aggregate: the key read in the collected results,
\* the key read in that facet's response, and the fields of its record
\* class (those without a default, and all of them).
Sourced == {"source", "confidence", "data_type"}

ListFacets ==
    <<[facet |-> "traits", key |-> "traits",
       required |-> {"trait", "category", "origin", "description"},
       optional |-> {"examples", "evolution", "blind_spots"} \cup Sourced],
      [facet |-> "beliefs", key |-> "beliefs",
       required |-> {"belief"}, optional |-> {"rationale"} \cup Sourced],
      [facet |-> "philosophies", key |-> "philosophies",
       required |-> {"principle"},
       optional |-> {"quotes", "contradictions"} \cup Sourced],
      [facet |-> "failures", key |-> "failures",
       required |-> {"event", "date", "description"},
       optional |-> {"lessons_learned"} \cup Sourced],
      [facet |-> "key_decisions", key |-> "key_decisions",
       required |-> {"decision", "date", "context", "impact"},
       optional |-> {"reasoning"} \cup Sourced],
      [facet |-> "mentors", key |-> "connections",
       required |-> {"name", "relationship", "impact"},
       optional |-> {"period"} \cup Sourced],
      [facet |-> "habits", key |-> "habits",
       required |-> {"habit", "description"}, optional |-> {"impact"} \cup Sourced],
      [facet |-> "approaches", key |-> "approaches",
       required |-> {"approach_name", "description"}, optional |-> Sourced],
      [facet |-> "anecdotes", key |-> "anecdotes",
       required |-> {"title", "narrative"},
       optional |-> {"moral", "timeline_ref"} \cup Sourced]>>

\* Cls(**d) for a dataclass: TRUE when no field without a default is
\* missing and no unknown keyword is given.
Constructs(d, required, optional) ==
    /\ required \subseteq DOMAIN d
    /\ DOMAIN d \subseteq required \cup optional

\* [Cls(**x) for x in results.get(facet, {}).get(key, [])]
FacetItems(res, lf) == Get(Get(res, lf.facet, [k \in {} |-> 0]), lf.key, <<>>)

FacetConstructs(res, lf) ==
    \A i \in 1..Len(FacetItems(res, lf)) :
        Constructs(FacetItems(res, lf)[i], lf.required, lf.optional)

\* A plausible slip: the fields of an absent emotional intelligence are
\* left unset.
BuildEI_Unset(res) ==
    LET ei == Get(Get(res, "emotional_intelligence", [k \in {} |-> 0]),
                  "emotional_intelligence", [k \in {} |-> 0])
    IN  [stress_management |-> Get(ei, "stress_management", <<>>),
         leadership_style |-> Get(ei, "leadership_style", <<>>),
         source |-> Get(ei, "source", None),
         confidence |-> Get(ei, "confidence", None),
         data_type |-> Get(ei, "data_type", None)]

\* results.get("emotional_intelligence", {}).get("emotional_intelligence", {})
EIData(res) ==
    Get(Get(res, "emotional_intelligence", [k \in {} |-> 0]),
        "emotional_intelligence", [k \in {} |-> 0])

EIConstructs(res) ==
    LET ei == EIData(res)
        sm == Get(ei, "stress_management", <<>>)
        ls == Get(ei, "leadership_style", <<>>)
    IN  /\ \A i \in 1..Len(sm) :
              Constructs(sm[i], {"strategy", "context"}, {"effectiveness"})
        /\ \A i \in 1..Len(ls) :
              Constructs(ls[i], {"trait", "description"}, {"examples"})
        /\ Get(ei, "data_type", "FACTUAL") \in DataTypeNames

BuildEI(res) ==
    LET ei == EIData(res)
    IN  [stress_management |-> Get(ei, "stress_management", <<>>),
         leadership_style |-> Get(ei, "leadership_style", <<>>),
         source |-> Get(ei, "source", ""),
         confidence |-> Get(ei, "confidence", "0.0"),
         data_type |-> Get(ei, "data_type", "FACTUAL")]

\* The extractor functions that return a list.  Of each: the key of the
\* array in its response and whether it is read with result[key] (strict)
\* or result.get(key, []); whether the loop maps each element inside its
\* own try block (isolated); the fields read with d[field] (required) and
\* with d.get(field, default) (defaults); the fields looked up in an enum;
\* the fields whose elements are built with Cls(**x) (nested).
NoFields == [k \in {} |-> 0]

Extractors ==
    <<[fn |-> "extract_timeline", facet |-> "timeline", key |-> "events",
       strict |-> FALSE, isolated |-> TRUE,
       required |-> {"date", "event_type", "description"} \cup Sourced,
       defaults |-> [emotional_context |-> None, trait_changes |-> <<>>,
                     alternative_paths |-> <<>>, external_triggers |-> <<>>],
       enums |-> [event_type |-> EventTypeNames, data_type |-> DataTypeNames],
       nested |-> [trait_changes |-> [required |-> {"trait", "change"},
                                      optional |-> {}]]],
      [fn |-> "extract_traits", facet |-> "traits", key |-> "traits",
       strict |-> TRUE, isolated |-> FALSE,
       required |-> {"trait", "category", "origin", "description"} \cup Sourced,
       defaults |-> [examples |-> <<>>, evolution |-> <<>>, blind_spots |-> <<>>],
       enums |-> [category |-> TraitCategoryNames, origin |-> TraitOriginNames,
                  data_type |-> DataTypeNames],
       nested |-> [examples |-> [required |-> {"description"}, optional |-> {"source"}],
                   evolution |-> [required |-> {"period", "change"},
                                  optional |-> {"trigger"}],
                   blind_spots |-> [required |-> {"description"},
                                    optional |-> {"overcome_strategy"} \cup Sourced]]],
      [fn |-> "extract_beliefs", facet |-> "beliefs", key |-> "beliefs",
       strict |-> FALSE, isolated |-> TRUE,
       required |-> {"belief"} \cup Sourced,
       defaults |-> [rationale |-> None],
       enums |-> [data_type |-> DataTypeNames], nested |-> NoFields],
      [fn |-> "extract_philosophies", facet |-> "philosophies", key |-> "philosophies",
       strict |-> FALSE, isolated |-> TRUE,
       required |-> {"principle"} \cup Sourced,
       defaults |-> [quotes |-> <<>>, contradictions |-> <<>>],
       enums |-> [data_type |-> DataTypeNames],
       nested |-> [quotes |-> [required |-> {"quote", "source"}, optional |-> {"context"}],
                   contradictions |-> [required |-> {"description"},
                                       optional |-> {"timeline_ref"}]]],
      [fn |-> "extract_failures", facet |-> "failures", key |-> "failures",
       strict |-> FALSE, isolated |-> TRUE,
       required |-> {"event", "date", "description"} \cup Sourced,
       defaults |-> [lessons_learned |-> <<>>],
       enums |-> [data_type |-> DataTypeNames], nested |-> NoFields],
      [fn |-> "extract_key_decisions", facet |-> "key_decisions", key |-> "key_decisions",
       strict |-> FALSE, isolated |-> TRUE,
       required |-> {"decision", "date", "context", "impact"} \cup Sourced,
       defaults |-> [reasoning |-> None],
       enums |-> [data_type |-> DataTypeNames], nested |-> NoFields],
      [fn |-> "extract_mentors_and_network", facet |-> "mentors", key |-> "connections",
       strict |-> FALSE, isolated |-> TRUE,
       required |-> {"name", "relationship", "impact"} \cup Sourced,
       defaults |-> [period |-> None],
       enums |-> [data_type |-> DataTypeNames], nested |-> NoFields],
      [fn |-> "extract_habits", facet |-> "habits", key |-> "habits",
       strict |-> FALSE, isolated |-> TRUE,
       required |-> {"habit", "description"} \cup Sourced,
       defaults |-> [impact |-> None],
       enums |-> [data_type |-> DataTypeNames], nested |-> NoFields],
      [fn |-> "extract_unique_approaches", facet |-> "approaches", key |-> "approaches",
       strict |-> FALSE, isolated |-> TRUE,
       required |-> {"approach_name", "description"} \cup Sourced,
       defaults |-> NoFields,
       enums |-> [data_type |-> DataTypeNames], nested |-> NoFields],
      [fn |-> "extract_anecdotes", facet |-> "anecdotes", key |-> "anecdotes",
       strict |-> FALSE, isolated |-> TRUE,
       required |-> {"title", "narrative"} \cup Sourced,
       defaults |-> [moral |-> None, timeline_ref |-> None],
       enums |-> [data_type |-> DataTypeNames], nested |-> NoFields]>>

\* Cls(field=d["field"], ..., other=d.get("other", default)): TRUE when
\* the construction raises nothing.
RecordMaps(sch, d) ==
    /\ sch.required \subseteq DOMAIN d
    /\ \A k \in DOMAIN sch.enums : d[k] \in sch.enums[k]
    /\ \A k \in DOMAIN sch.nested :
          LET xs == Get(d, k, <<>>)
          IN  \A i \in 1..Len(xs) :
                 Constructs(xs[i], sch.nested[k].required, sch.nested[k].optional)

MapRecord(sch, d) ==
    [k \in sch.required \cup DOMAIN sch.defaults |->
        IF k \in DOMAIN d THEN d[k] ELSE sch.defaults[k]]

\* The loop of an extractor with a try block in its body.
RECURSIVE MapValid(_, _)
MapValid(sch, items) ==
    IF items = <<>> THEN <<>>
    ELSE IF RecordMaps(sch, Head(items))
    THEN <<MapRecord(sch, Head(items))>> \o MapValid(sch, Tail(items))
    ELSE MapValid(sch, Tail(items))

\* The part of an extractor after its completion call: the records mapped
\* from the array of the response, or the exception that leaves it.
ExtractList(sch, result) ==
    IF sch.fn = "extract_timeline"
    THEN [status |-> "returned", exc |-> "none", value |-> extract_timeline_events(result)]
    ELSE IF sch.strict /\ sch.key \notin DOMAIN result
    THEN [status |-> "raised", exc |-> "KeyError", value |-> <<>>]
    ELSE LET items == Get(result, sch.key, <<>>)
         IN  IF sch.isolated
             THEN [status |-> "returned", exc |-> "none", value |-> MapValid(sch, items)]
             ELSE IF \A i \in 1..Len(items) : RecordMaps(sch, items[i])
             THEN [status |-> "returned", exc |-> "none",
                   value |-> [i \in 1..Len(items) |-> MapRecord(sch, items[i])]]
             ELSE [status |-> "raised", value |-> <<>>,
                   exc |-> IF \A i \in 1..Len(items) :
                                 /\ sch.required \subseteq DOMAIN items[i]
                                 /\ \A k \in DOMAIN sch.enums :
                                       items[i][k] \in sch.enums[k]
                           THEN "TypeError" ELSE "KeyError"]

NoFounder == [none |-> TRUE]

\* Founder(...): the aggregate but for metadata.last_updated.
BuildFounder(basic, tl, res) ==
    [basic_info |-> basic, early_life |-> <<>>, timeline |-> tl,
     traits |-> FacetItems(res, ListFacets[1]),
     beliefs |-> FacetItems(res, ListFacets[2]),
     philosophies |-> FacetItems(res, ListFacets[3]),
     failures |-> FacetItems(res, ListFacets[4]),
     key_decisions |-> FacetItems(res, ListFacets[5]),
     mentors_and_network |-> FacetItems(res, ListFacets[6]),
     habits |-> FacetItems(res, ListFacets[7]),
     unique_approaches |-> FacetItems(res, ListFacets[8]),
     anecdotes |-> FacetItems(res, ListFacets[9]),
     emotional_intelligence |-> BuildEI(res),
     metadata |-> [version |-> "0.1", sources |-> <<"transcript">>]]

----------------------------------------------------------------------------
(* Prompts.  A prompt is described by the call it belongs to and by the   *)
(* transcript text that was formatted into it.                            *)

\* text[:2000]: a word is far shorter than 2000 characters and a long
\* passage longer, so the slice ends inside the first long passage, of
\* which it keeps a part ("p").
RECURSIVE First2000(_)
First2000(text) ==
    IF text = <<>> THEN <<>>
    ELSE IF Head(text) = "P" THEN <<"p">>
    ELSE <<Head(text)>> \o First2000(Tail(text))

\* extract_basic_info: the prompt holds transcript[:2000] of its argument.
BasicPrompt(chunk) == [kind |-> "basic_info", source |-> "chunk", text |-> First2000(chunk)]

\* extract_timeline: the prompt holds the whole of its argument.
TimelinePrompt(chunk) == [kind |-> "timeline", source |-> "chunk", text |-> chunk]

\* extract_all_components: the prompt is the docstring of the extractor.
FacetPrompt(f) == [kind |-> f, source |-> "docstring", text |-> <<>>]

IdleCall == [attempt |-> 0, status |-> "idle", value |-> NoValue, error |-> NoError,
             prompt |-> [kind |-> "none", source |-> "none", text |-> <<>>]]

----------------------------------------------------------------------------
(* The stub completion service: for each kind of call, the outcomes it    *)
(* may give to an attempt.                                                *)

BasicDocFull ==
    [name |-> "Elon Musk", domain |-> <<"space", "cars">>,
     financial_background |-> "modest", era |-> [start |-> "1971"]]
BasicDocMinimal == [name |-> "Elon Musk", domain |-> <<>>]
BasicDocNoName  == [domain |-> <<"space">>, financial_background |-> "modest"]
BasicDocBadEra  == [name |-> "Elon Musk", domain |-> <<>>, era |-> [end |-> "2000"]]

EventsDoc(eds) == [events |-> eds]

\* Three events told out of order: dated 2000, 1999-06 and 1999.
ThreeDatesDoc ==
    EventsDoc(<<VariantEventData("date"),
                [BaseEventData EXCEPT !.date = Date1999_06, !.event_type = "PIVOT"],
                BaseEventData>>)

\* Timeline answers: no event, the base event once or twice, the base
\* event with a variant, the three dated events.
RichTimelineDocs ==
    {EventsDoc(<<>>), EventsDoc(<<BaseEventData>>),
     EventsDoc(<<BaseEventData, BaseEventData>>)}
    \cup {EventsDoc(<<BaseEventData, VariantEventData(f)>>) : f \in FieldNames}
    \cup {ThreeDatesDoc}

TraitData ==
    [trait |-> "grit", category |-> "TRAIT", origin |-> "INNATE",
     description |-> "persists", source |-> "quote", confidence |-> "0.8",
     data_type |-> "FACTUAL"]
BeliefData == [belief |-> "first principles", source |-> "quote",
               confidence |-> "0.7", data_type |-> "INFERRED"]
EIDataFull ==
    [stress_management |-> <<[strategy |-> "sleep at the factory", context |-> "ramp"]>>,
     leadership_style |-> <<>>, source |-> "quote", confidence |-> "0.6",
     data_type |-> "SPECULATIVE"]

\* A record of each of the other list facets, as the prompts describe it.
SampleRecord(f) ==
    CASE f = "traits"        -> TraitData
      [] f = "beliefs"       -> BeliefData
      [] f = "philosophies"  ->
            [principle |-> "first principles",
             quotes |-> <<[quote |-> "boil it down", source |-> "interview"]>>,
             source |-> "quote", confidence |-> "0.8", data_type |-> "FACTUAL"]
      [] f = "failures"      ->
            [event |-> "Falcon 1", date |-> "2006", description |-> "engine fire",
             lessons_learned |-> <<"test more">>, source |-> "quote",
             confidence |-> "0.9", data_type |-> "FACTUAL"]
      [] f = "key_decisions" ->
            [decision |-> "all in", date |-> "2008", context |-> "crisis",
             impact |-> "survived", source |-> "quote", confidence |-> "0.7",
             data_type |-> "INFERRED"]
      [] f = "mentors"       ->
            [name |-> "Peter", relationship |-> "cofounder", impact |-> "PayPal",
             source |-> "quote", confidence |-> "0.6", data_type |-> "FACTUAL"]
      [] f = "habits"        ->
            [habit |-> "time boxing", description |-> "five-minute slots",
             source |-> "quote", confidence |-> "0.5", data_type |-> "SPECULATIVE"]
      [] f = "approaches"    ->
            [approach_name |-> "vertical integration", description |-> "build in house",
             source |-> "quote", confidence |-> "0.8", data_type |-> "FACTUAL"]
      [] f = "anecdotes"     ->
            [title |-> "the rocket book", narrative |-> "read the manuals",
             source |-> "quote", confidence |-> "0.4", data_type |-> "INFERRED"]

\* The list facet of the name.
ListFacet(f) == ListFacets[CHOOSE i \in 1..Len(ListFacets) : ListFacets[i].facet = f]

\* The answer to the request of facet f that holds the records recs.
FacetDoc(f, recs) == [k \in {ListFacet(f).key} |-> recs]

FacetDocEmpty(f) ==
    CASE f = "traits"  -> [traits |-> <<>>]
      [] f = "beliefs" -> [beliefs |-> <<>>]
      [] f = "emotional_intelligence" ->
            [emotional_intelligence |-> [k \in {} |-> 0]]
      [] OTHER         -> FacetDoc(f, <<>>)

FacetDocFull(f) ==
    CASE f = "traits"  -> [traits |-> <<TraitData>>]
      [] f = "beliefs" -> [beliefs |-> <<BeliefData, BeliefData>>]
      [] f = "emotional_intelligence" -> [emotional_intelligence |-> EIDataFull]
      [] OTHER         -> FacetDoc(f, <<SampleRecord(f)>>)

\* A trait without its origin between two traits.
MalformedTraitsDoc ==
    [traits |-> <<TraitData,
                  [trait |-> "focus", category |-> "SKILL", description |-> "deep work"],
                  [TraitData EXCEPT !.trait = "drive", !.origin = "DEVELOPED"]>>]

\* Transcripts given to extract_founder_data: one short paragraph, two
\* short paragraphs (one chunk), two long paragraphs (two chunks), three
\* long paragraphs (three chunks), a first paragraph that alone exceeds
\* the default budget.
OneParagraph    == <<"a">>
ShortParagraphs == <<"a", ParagraphSep, "b">>
TwoChunks       == <<"P", ParagraphSep, "P", "a">>
ThreeChunks     == <<"P", "a", ParagraphSep, "P", ParagraphSep, "b", "P">>
OverBudgetFirst == <<"P", "P", ParagraphSep, "a">>

Transcripts == {OneParagraph, ShortParagraphs, TwoChunks, ThreeChunks, OverBudgetFirst}

OkBasic    == {Answers("json", "plain", BasicDocFull)}
OkTimeline == {Answers("json", "plain", EventsDoc(<<BaseEventData>>))}
OkFacets   == [f \in ModelledFacets |-> {Answers("json", "plain", FacetDocEmpty(f))}]

\* Faults in the blocking calls, with every transcript.
EnvFaulty ==
    [name |-> "faulty", transcripts |-> Transcripts,
     basic |-> OkBasic \cup {Raises("APIError")},
     timeline |-> OkTimeline \cup {Raises("APIError")},
     facet |-> OkFacets]

\* Faults in every kind of call.
EnvAllFaulty ==
    [name |-> "all_faulty", transcripts |-> {OneParagraph},
     basic |-> OkBasic \cup {Raises("APIError")},
     timeline |-> OkTimeline \cup {Raises("APIError")},
     facet |-> [f \in ModelledFacets |-> OkFacets[f] \cup {Raises("APITimeoutError")}]]

\* Every kind of answer to the basic-info call.
EnvBasic ==
    [name |-> "basic", transcripts |-> {ShortParagraphs, OverBudgetFirst},
     basic |-> {Raises("APIError"), Answers("blank", "plain", NoValue),
                Answers("prose", "plain", NoValue),
                Answers("json", "plain", BasicDocFull),
                Answers("json_lines", "fenced_json", BasicDocMinimal),
                Answers("json", "plain", BasicDocNoName),
                Answers("json", "fenced", BasicDocBadEra)},
     timeline |-> OkTimeline,
     facet |-> OkFacets]

\* Every kind of failure of a timeline call, and two answers.
EnvTimelineFaults ==
    [name |-> "timeline_faults", transcripts |-> {OneParagraph, TwoChunks},
     basic |-> OkBasic,
     timeline |-> {Raises("APIError"), Raises("APITimeoutError"),
                   Answers("empty", "plain", NoValue),
                   Answers("prose", "fenced", NoValue),
                   Answers("json", "plain", EventsDoc(<<BaseEventData>>)),
                   Answers("json_lines", "fenced",
                           EventsDoc(<<VariantEventData("date"),
                                       VariantEventData("description")>>))},
     facet |-> OkFacets]

\* Every timeline answer, no fault.
EnvTimelineRich ==
    [name |-> "timeline_rich", transcripts |-> {ShortParagraphs, TwoChunks},
     basic |-> OkBasic,
     timeline |-> {Answers("json", "plain", d) : d \in RichTimelineDocs},
     facet |-> OkFacets]

\* Every kind of outcome of a concurrent facet call.
EnvFanout ==
    [name |-> "fanout", transcripts |-> {ShortParagraphs},
     basic |-> OkBasic,
     timeline |-> OkTimeline,
     facet |-> [f \in ModelledFacets |->
                  {Raises("APIError"), Answers("prose", "plain", NoValue),
                   Answers("json", "plain", FacetDocEmpty(f)),
                   Answers("json", "fenced_json", FacetDocFull(f))}]]

\* A trait whose category is not a member name of TraitCategory (the
\* lookup is case-sensitive) after a well-formed trait.
BadEnumTraitsDoc ==
    [traits |-> <<TraitData, [TraitData EXCEPT !.trait = "focus", !.category = "Trait"]>>]

BadEnumEIDoc == [emotional_intelligence |-> [EIDataFull EXCEPT !.data_type = "factual"]]

\* Events with an undeclared event type and an undeclared data type among
\* well-formed events.
BadEnumEventsDoc ==
    EventsDoc(<<BaseEventData,
                [BaseEventData EXCEPT !.event_type = "Founding", !.description = "first office"],
                VariantEventData("date"),
                [BaseEventData EXCEPT !.data_type = "GUESS", !.description = "first hire"]>>)

\* Answers that hold records that cannot be mapped; no fault.
EnvMalformed ==
    [name |-> "malformed", transcripts |-> {OneParagraph},
     basic |-> OkBasic,
     timeline |-> {Answers("json", "plain", BadEnumEventsDoc)},
     facet |-> [f \in ModelledFacets |->
                  CASE f = "traits" ->
                         {Answers("json", "plain", MalformedTraitsDoc),
                          Answers("json", "plain", BadEnumTraitsDoc)}
                    [] f = "emotional_intelligence" ->
                         {Answers("json", "plain", FacetDocFull(f)),
                          Answers("json", "plain", BadEnumEIDoc)}
                    [] OTHER -> {Answers("json", "plain", FacetDocFull(f))}]]

Date1995 == <<49, 57, 57, 53>>
Date2008 == <<50, 48, 48, 56>>

Event1995 == [BaseEventData EXCEPT !.date = Date1995, !.description = "founding"]
Event2008 == [BaseEventData EXCEPT !.date = Date2008, !.event_type = "CRISIS",
                                   !.description = "crisis"]

\* A service that answers a timeline request with one event, dated 1995 or
\* 2008, and every other list facet with an empty array.
EnvScenario ==
    [name |-> "scenario", transcripts |-> {ShortParagraphs},
     basic |-> OkBasic,
     timeline |-> {Answers("json", "plain", EventsDoc(<<Event1995>>)),
                   Answers("json", "plain", EventsDoc(<<Event2008>>))},
     facet |-> OkFacets]

Environments == {EnvFaulty, EnvAllFaulty, EnvBasic, EnvTimelineFaults, EnvTimelineRich,
                 EnvFanout, EnvMalformed, EnvScenario}

----------------------------------------------------------------------------
VARIABLES
    \* the two clients exercised alone, and the outcomes served so far
    sync, async, served,
    \* chunk_transcript exercised alone: its arguments and its state
    ckin, ck,
    \* extract_founder_data
    transcript,           \* its argument
    env,                  \* the name of the stub service of this run
    pc,                   \* where the run is
    chunks,               \* chunk_transcript(transcript)
    basic_call,           \* the call of extract_basic_info
    basic_info,
    tl_calls,             \* the calls of extract_timeline, one per chunk begun
    chunk_events,         \* the events each finished chunk contributed
    all_timeline_events,
    timeline,
    tasks,                \* the calls of the concurrent tasks
    done_queue,           \* finished tasks that as_completed has yet to yield
    ac_results,           \* results of extract_all_components
    ac_keys,              \* its keys in insertion order
    results,              \* results of extract_founder_data
    founder,              \* the value returned
    failure,              \* the exception raised to the caller
    \* the merge of the timeline exercised alone, in two runs
    mg,
    \* a list extractor exercised alone on the value of its completion call
    ex,
    \* transcribe_audio on one file
    ta,
    \* the transcription batch and its files
    tb,
    \* the downloader, its tasks and its files
    dl

clientVars == <<sync, async, served>>
chunkVars  == <<ckin, ck>>
runVars    == <<transcript, env, pc, chunks, basic_call, basic_info, tl_calls,
                chunk_events, all_timeline_events, timeline, tasks, done_queue,
                ac_results, ac_keys, results, founder, failure>>
unitVars   == <<mg, ex>>
toolVars   == <<ta, tb, dl>>
vars == <<clientVars, chunkVars, runVars, unitVars, toolVars>>

NoFailure == [exc |-> "none", attempt |-> 0, origin |-> "none"]

\* The variables of a part of the program that a specification leaves idle.
ClientIdle ==
    /\ sync = IdleCall /\ async = IdleCall /\ served = <<>>
ChunkIdle ==
    /\ ckin = [transcript |-> <<>>, max_tokens |-> 0]
    /\ ck = [ChunkStart(<<>>) EXCEPT !.done = TRUE]
RunIdle ==
    /\ transcript = <<>> /\ env = "none" /\ pc = "idle" /\ chunks = <<>>
    /\ basic_call = IdleCall /\ basic_info = NoValue /\ tl_calls = <<>>
    /\ chunk_events = <<>> /\ all_timeline_events = <<>> /\ timeline = <<>>
    /\ tasks = [f \in ModelledFacets |-> IdleCall] /\ done_queue = <<>>
    /\ ac_results = EmptyObject /\ ac_keys = <<>> /\ results = EmptyObject
    /\ founder = NoFounder /\ failure = NoFailure
MergeIdle ==
    mg = [inputs |-> <<<<>>, <<>>>>, outputs |-> <<<<>>, <<>>>>, ran |-> <<TRUE, TRUE>>]
ExtractIdle ==
    ex = [fn |-> "none", result |-> EmptyObject, status |-> "idle", exc |-> "none",
          value |-> <<>>]
UnitIdle == MergeIdle /\ ExtractIdle
IdleTranscription ==
    [file_size |-> 0, retries |-> 0, status |-> "idle", value |-> PyNone, log |-> <<>>]
IdleBatch == [pc |-> "idle"]
IdleDownloader == [pc |-> "idle"]
ToolIdle == ta = IdleTranscription /\ tb = IdleBatch /\ dl = IdleDownloader

----------------------------------------------------------------------------
(* SpecClient: extract_with_retries and extract_with_retries_async, each   *)
(* making one call, are given the same outcomes: attempt k of either gets  *)
(* served[k], which the first of them to make a k-th attempt draws.        *)

ClientPrompt == [kind |-> "client", source |-> "none", text |-> <<>>]

Offered(k) == IF k <= Len(served) THEN {served[k]} ELSE ClientOutcomes

InitClient ==
    /\ sync = NewCall(ClientPrompt)
    /\ async = NewCall(ClientPrompt)
    /\ served = <<>>
    /\ ChunkIdle /\ RunIdle /\ UnitIdle /\ ToolIdle

SyncAttempt ==
    /\ sync.status = "running"
    /\ \E o \in Offered(sync.attempt + 1) :
          /\ sync' = extract_with_retries(sync, o, DefaultMaxRetries)
          /\ served' = IF sync.attempt + 1 <= Len(served) THEN served
                       ELSE Append(served, o)
    /\ UNCHANGED <<async, chunkVars, runVars, unitVars, toolVars>>

AsyncAttempt ==
    /\ async.status = "running"
    /\ \E o \in Offered(async.attempt + 1) :
          /\ async' = extract_with_retries_async(async, o, "traits", DefaultMaxRetries)
          /\ served' = IF async.attempt + 1 <= Len(served) THEN served
                       ELSE Append(served, o)
    /\ UNCHANGED <<sync, chunkVars, runVars, unitVars, toolVars>>

NextClient == SyncAttempt \/ AsyncAttempt

SpecClient == InitClient /\ [][NextClient]_vars

----------------------------------------------------------------------------
(* SpecChunk: chunk_transcript on every transcript of at most              *)
(* MaxTranscriptLen words and separators, with every budget up to          *)
(* MaxBudget.                                                              *)

ChunkSymbols == {"a", "b", ParagraphSep}

ChunkTranscripts ==
    UNION {[1..n -> ChunkSymbols] : n \in 0..MaxTranscriptLen}

InitChunk ==
    /\ ckin \in [transcript : ChunkTranscripts, max_tokens : 0..MaxBudget]
    /\ ck = ChunkStart(ckin.transcript)
    /\ ClientIdle /\ RunIdle /\ UnitIdle /\ ToolIdle

ChunkIterate ==
    /\ ~ck.done
    /\ ck.i <= Len(ck.paragraphs)
    /\ ck' = ChunkParagraph(ck, ckin.max_tokens)
    /\ UNCHANGED <<ckin, clientVars, runVars, unitVars, toolVars>>

ChunkReturn ==
    /\ ~ck.done
    /\ ck.i > Len(ck.paragraphs)
    /\ ck' = ChunkFinish(ck)
    /\ UNCHANGED <<ckin, clientVars, runVars, unitVars, toolVars>>

NextChunk == ChunkIterate \/ ChunkReturn

SpecChunk == InitChunk /\ [][NextChunk]_vars

----------------------------------------------------------------------------
(* Spec: extract_founder_data.  A step is the part of the run between two  *)
(* returns of the completion service: one attempt of the blocking call in  *)
(* progress, or one attempt of one concurrent task, with all the code that *)
(* follows it up to the next request.                                      *)

\* The stub service of the name.
Service(name) == CHOOSE e \in Environments : e.name = name

Init ==
    /\ env \in {e.name : e \in Environments}
    /\ transcript \in Service(env).transcripts
    /\ pc = "start"
    /\ chunks = <<>>
    /\ basic_call = IdleCall /\ basic_info = NoValue
    /\ tl_calls = <<>> /\ chunk_events = <<>>
    /\ all_timeline_events = <<>> /\ timeline = <<>>
    /\ tasks = [f \in ModelledFacets |-> IdleCall] /\ done_queue = <<>>
    /\ ac_results = EmptyObject /\ ac_keys = <<>> /\ results = EmptyObject
    /\ founder = NoFounder /\ failure = NoFailure
    /\ ClientIdle /\ ChunkIdle /\ UnitIdle /\ ToolIdle

Failed(error, origin) == [exc |-> error.exc, attempt |-> error.attempt, origin |-> origin]

\* A plausible slip: the basic information is asked of the last chunk.
Start_LastChunk ==
    /\ pc = "start"
    /\ chunks' = chunk_transcript(transcript, DefaultMaxTokens)
    /\ basic_call' = NewCall(BasicPrompt(chunks'[Len(chunks')]))
    /\ pc' = "basic"
    /\ UNCHANGED <<transcript, env, basic_info, tl_calls, chunk_events,
                   all_timeline_events, timeline, tasks, done_queue, ac_results, ac_keys,
                   results, founder, failure, clientVars, chunkVars, unitVars, toolVars>>

\* results = {}; chunks = chunk_transcript(transcript); the call of
\* extract_basic_info(chunks[0]) begins.
Start ==
    /\ pc = "start"
    /\ chunks' = chunk_transcript(transcript, DefaultMaxTokens)
    /\ basic_call' = NewCall(BasicPrompt(chunks'[1]))
    /\ pc' = "basic"
    /\ UNCHANGED <<transcript, env, basic_info, tl_calls, chunk_events,
                   all_timeline_events, timeline, tasks, done_queue, ac_results, ac_keys,
                   results, founder, failure, clientVars, chunkVars, unitVars, toolVars>>

\* A plausible slip: a failed basic-info extraction is replaced by a
\* placeholder and the run goes on.
AfterBasic_Fallback(c) ==
    IF c.status = "running"
    THEN [pc |-> "basic", info |-> NoValue, failure |-> NoFailure]
    ELSE IF c.status = "returned" /\ BasicInfoMaps(c.value)
    THEN [pc |-> "timeline", info |-> MapBasicInfo(c.value), failure |-> NoFailure]
    ELSE [pc |-> "timeline", info |-> MapBasicInfo(BasicDocMinimal),
          failure |-> NoFailure]

\* A plausible slip: the handler of extract_founder_data does not re-raise,
\* and the run ends by returning nothing.
AfterBasic_SwallowsFailure(c) ==
    IF c.status = "running"
    THEN [pc |-> "basic", info |-> NoValue, failure |-> NoFailure]
    ELSE IF c.status = "returned" /\ BasicInfoMaps(c.value)
    THEN [pc |-> "timeline", info |-> MapBasicInfo(c.value), failure |-> NoFailure]
    ELSE [pc |-> "returned", info |-> NoValue, failure |-> NoFailure]

\* What follows an attempt of the basic-info call: the next attempt, the
\* BasicInfo and the timeline loop, or the exception on its way to the
\* handler of extract_founder_data, which re-raises it.
AfterBasic(c) ==
    IF c.status = "running"
    THEN [pc |-> "basic", info |-> NoValue, failure |-> NoFailure]
    ELSE IF c.status = "raised"
    THEN [pc |-> "raised", info |-> NoValue, failure |-> Failed(c.error, "basic_info")]
    ELSE IF BasicInfoMaps(c.value)
    THEN [pc |-> "timeline", info |-> MapBasicInfo(c.value), failure |-> NoFailure]
    ELSE [pc |-> "raised", info |-> NoValue,
          failure |-> [exc |-> BasicInfoError(c.value), attempt |-> 0,
                       origin |-> "basic_info"]]

BasicAttempt ==
    /\ pc = "basic"
    /\ \E o \in Service(env).basic :
          \E c \in {extract_with_retries(basic_call, o, DefaultMaxRetries)} :
          \E a \in {AfterBasic(c)} :
              /\ basic_call' = c
              /\ pc' = a.pc
              /\ basic_info' = a.info
              /\ failure' = a.failure
              /\ tl_calls' = IF a.pc = "timeline"
                             THEN <<NewCall(TimelinePrompt(chunks[1]))>>
                             ELSE tl_calls
    /\ UNCHANGED <<transcript, env, chunks, chunk_events, all_timeline_events,
                   timeline, tasks, done_queue, ac_results, ac_keys, results, founder,
                   clientVars, chunkVars, unitVars, toolVars>>

\* A plausible slip: the loop over the chunks ends after its first chunk.
TimelineLoopEnds_FirstChunkOnly(i, n) == i >= 1

\* for i, chunk in enumerate(chunks, 1): the loop ends after chunk n.
TimelineLoopEnds(i, n) == i = n

\* A plausible slip: the failure of a chunk ends the loop.
AfterTimeline_FailureEndsLoop(c, i, n) ==
    IF c.status = "running"
    THEN [finished |-> FALSE, events |-> <<>>, pc |-> "timeline"]
    ELSE IF c.status = "returned"
    THEN [finished |-> TRUE, events |-> extract_timeline_events(c.value),
          pc |-> IF TimelineLoopEnds(i, n) THEN "merge" ELSE "timeline"]
    ELSE [finished |-> TRUE, events |-> <<>>, pc |-> "merge"]

\* A plausible slip: only the first event of an answer is kept.
AfterTimeline_DropsEvents(c, i, n) ==
    IF c.status = "running"
    THEN [finished |-> FALSE, events |-> <<>>, pc |-> "timeline"]
    ELSE IF c.status = "returned"
    THEN [finished |-> TRUE,
          events |-> SubSeq(extract_timeline_events(c.value), 1, 1),
          pc |-> IF TimelineLoopEnds(i, n) THEN "merge" ELSE "timeline"]
    ELSE [finished |-> TRUE, events |-> <<>>,
          pc |-> IF TimelineLoopEnds(i, n) THEN "merge" ELSE "timeline"]

\* What follows an attempt of the timeline call of chunk i of n: the next
\* attempt, or the end of the iteration, with the events of the chunk
\* (none when extract_timeline raised: the handler of the loop body only
\* prints a warning).
AfterTimeline(c, i, n) ==
    IF c.status = "running"
    THEN [finished |-> FALSE, events |-> <<>>, pc |-> "timeline"]
    ELSE IF c.status = "returned"
    THEN [finished |-> TRUE, events |-> extract_timeline_events(c.value),
          pc |-> IF TimelineLoopEnds(i, n) THEN "merge" ELSE "timeline"]
    ELSE [finished |-> TRUE, events |-> <<>>,
          pc |-> IF TimelineLoopEnds(i, n) THEN "merge" ELSE "timeline"]

TimelineAttempt ==
    /\ pc = "timeline"
    /\ \E o \in Service(env).timeline :
          \E c \in {extract_with_retries(tl_calls[Len(tl_calls)], o, DefaultMaxRetries)} :
          \E a \in {AfterTimeline(c, Len(tl_calls), Len(chunks))} :
          LET i == Len(tl_calls)
              calls == [tl_calls EXCEPT ![i] = c]
          IN  /\ tl_calls' = IF a.finished /\ a.pc = "timeline"
                             THEN Append(calls, NewCall(TimelinePrompt(chunks[i + 1])))
                             ELSE calls
              /\ all_timeline_events' = all_timeline_events \o a.events
              /\ chunk_events' = IF a.finished THEN Append(chunk_events, a.events)
                                 ELSE chunk_events
              /\ pc' = a.pc
    /\ UNCHANGED <<transcript, env, chunks, basic_call, basic_info, timeline, tasks,
                   done_queue, ac_results, ac_keys, results, founder, failure,
                   clientVars, chunkVars, unitVars, toolVars>>

\* timeline = sorted(set(all_timeline_events), key=lambda x: x.date), then
\* asyncio.run(extract_all_components(transcript)) up to its first
\* suspension: every task has made its first request.
Merge ==
    /\ pc = "merge"
    /\ timeline' \in SortedByDate(PySet(all_timeline_events))
    /\ tasks' = [f \in ModelledFacets |-> NewCall(FacetPrompt(f))]
    /\ pc' = "fanout"
    /\ UNCHANGED <<transcript, env, chunks, basic_call, basic_info, tl_calls,
                   chunk_events, all_timeline_events, done_queue, ac_results, ac_keys,
                   results, founder, failure, clientVars, chunkVars, unitVars, toolVars>>

\* A plausible slip: the tasks share one retry counter, and a failed
\* attempt of one task counts for every task still running.
FacetAttempt_SharedBudget(f) ==
    /\ pc = "fanout"
    /\ tasks[f].status = "running"
    /\ \E o \in Service(env).facet[f] :
          \E c \in {extract_with_retries_async(tasks[f], o, f, DefaultMaxRetries)} :
              /\ tasks' = [g \in DOMAIN tasks |->
                              IF g = f THEN c
                              ELSE IF c.status # "returned" /\ tasks[g].status = "running"
                              THEN [tasks[g] EXCEPT !.attempt = @ + 1]
                              ELSE tasks[g]]
              /\ done_queue' = IF c.status = "running" THEN done_queue
                               ELSE Append(done_queue, f)
    /\ UNCHANGED <<transcript, env, pc, chunks, basic_call, basic_info, tl_calls,
                   chunk_events, all_timeline_events, timeline, ac_results, ac_keys, results,
                   founder, failure, clientVars, chunkVars, unitVars, toolVars>>

\* The request of task f returns: the task makes its next request, or it
\* finishes (with its pair or with its exception) and as_completed queues it.
FacetAttempt(f) ==
    /\ pc = "fanout"
    /\ tasks[f].status = "running"
    /\ \E o \in Service(env).facet[f] :
          \E c \in {extract_with_retries_async(tasks[f], o, f, DefaultMaxRetries)} :
              /\ tasks' = [tasks EXCEPT ![f] = c]
              /\ done_queue' = IF c.status = "running" THEN done_queue
                               ELSE Append(done_queue, f)
    /\ UNCHANGED <<transcript, env, pc, chunks, basic_call, basic_info, tl_calls,
                   chunk_events, all_timeline_events, timeline, ac_results, ac_keys, results,
                   founder, failure, clientVars, chunkVars, unitVars, toolVars>>

\* A plausible slip: every key but the one stored is dropped.
Put_Replaces(d, key, value) == [k \in {key} |-> value]

\* results[extraction_type] = data
Put(d, key, value) ==
    [k \in DOMAIN d \cup {key} |-> IF k = key THEN value ELSE d[k]]

\* The keys of a dict after d[key] = value, in insertion order.
PutKey(keys, key) ==
    IF \E i \in 1..Len(keys) : keys[i] = key THEN keys ELSE Append(keys, key)

\* asyncio.run ends: the tasks still pending are cancelled.
Cancelled(ts) ==
    [f \in DOMAIN ts |-> IF ts[f].status = "running"
                         THEN [ts[f] EXCEPT !.status = "cancelled"] ELSE ts[f]]

\* A plausible slip: the pairs are stored under the names of the task
\* list taken in order (as with zip(names, as_completed(tasks))), not
\* under the extraction type each task returned.
AfterAwait_NamesInTaskOrder(c, f, res, keys, last) ==
    IF c.status = "returned"
    THEN LET names == SelectSeq(FacetTasks, LAMBDA x : x \in ModelledFacets)
             name == names[Len(keys) + 1]
         IN  [raised |-> FALSE,
              ac_results |-> Put(res, name, c.value.data),
              ac_keys |-> PutKey(keys, name),
              pc |-> IF last THEN "assemble" ELSE "fanout", failure |-> NoFailure]
    ELSE [raised |-> TRUE, ac_results |-> res, ac_keys |-> keys,
          pc |-> "raised", failure |-> Failed(c.error, f)]

\* A plausible slip: a task that raised is passed over (as with
\* gather(..., return_exceptions=True)) and the loop goes on.
AfterAwait_SkipsFailed(c, f, res, keys, last) ==
    IF c.status = "returned"
    THEN [raised |-> FALSE,
          ac_results |-> Put(res, c.value.extraction_type, c.value.data),
          ac_keys |-> PutKey(keys, c.value.extraction_type),
          pc |-> IF last THEN "assemble" ELSE "fanout", failure |-> NoFailure]
    ELSE [raised |-> FALSE, ac_results |-> res, ac_keys |-> keys,
          pc |-> IF last THEN "assemble" ELSE "fanout", failure |-> NoFailure]

\* What follows extraction_type, data = await task for the finished task
\* c of facet f: its pair is stored, or its exception is raised.
AfterAwait(c, f, res, keys, last) ==
    IF c.status = "returned"
    THEN [raised |-> FALSE,
          ac_results |-> Put(res, c.value.extraction_type, c.value.data),
          ac_keys |-> PutKey(keys, c.value.extraction_type),
          pc |-> IF last THEN "assemble" ELSE "fanout", failure |-> NoFailure]
    ELSE [raised |-> TRUE, ac_results |-> res, ac_keys |-> keys,
          pc |-> "raised", failure |-> Failed(c.error, f)]

\* extraction_type, data = await task, for the next finished task: its
\* pair is stored; after the last task extract_all_components returns and
\* its value is bound to results.  A task that finished with an exception
\* raises it here: it leaves extract_all_components and asyncio.run, and
\* the handler of extract_founder_data re-raises it.
FanIn ==
    /\ pc = "fanout"
    /\ done_queue # <<>>
    /\ LET f == Head(done_queue)
           last == /\ Len(done_queue) = 1
                   /\ \A g \in DOMAIN tasks : tasks[g].status # "running"
       IN  \E a \in {AfterAwait(tasks[f], f, ac_results, ac_keys, last)} :
           /\ ac_results' = a.ac_results
           /\ ac_keys' = a.ac_keys
           /\ pc' = a.pc
           /\ results' = IF a.pc = "assemble" THEN a.ac_results ELSE results
           /\ done_queue' = IF a.raised THEN done_queue ELSE Tail(done_queue)
           /\ tasks' = IF a.raised THEN Cancelled(tasks) ELSE tasks
           /\ failure' = IF a.raised THEN a.failure ELSE failure
    /\ UNCHANGED <<transcript, env, chunks, basic_call, basic_info, tl_calls,
                   chunk_events, all_timeline_events, timeline, founder,
                   clientVars, chunkVars, unitVars, toolVars>>

\* The records of every facet are built from results and the Founder is
\* returned; a record that cannot be built raises on its way to the
\* handler, which re-raises.
Assemble ==
    /\ pc = "assemble"
    /\ IF /\ \A i \in 1..Len(ListFacets) : FacetConstructs(results, ListFacets[i])
          /\ EIConstructs(results)
       THEN /\ founder' = BuildFounder(basic_info, timeline, results)
            /\ pc' = "returned"
            /\ UNCHANGED failure
       ELSE /\ failure' = [exc |-> "TypeError", attempt |-> 0, origin |-> "assemble"]
            /\ pc' = "raised"
            /\ UNCHANGED founder
    /\ UNCHANGED <<transcript, env, chunks, basic_call, basic_info, tl_calls,
                   chunk_events, all_timeline_events, timeline, tasks, done_queue,
                   ac_results, ac_keys, results, clientVars, chunkVars, unitVars, toolVars>>

Next ==
    \/ Start
    \/ BasicAttempt
    \/ TimelineAttempt
    \/ Merge
    \/ \E f \in ModelledFacets : FacetAttempt(f)
    \/ FanIn
    \/ Assemble

Spec == Init /\ [][Next]_vars

\* Every completion call returns in the end, and the code between two
\* calls runs to the next call: the blocking calls are made by the only
\* thread, the concurrent ones are tasks of the event loop that
\* asyncio.run drives until extract_all_components is done.
Fairness ==
    /\ WF_vars(Start)
    /\ WF_vars(BasicAttempt)
    /\ WF_vars(TimelineAttempt)
    /\ WF_vars(Merge)
    /\ \A f \in ModelledFacets : WF_vars(FacetAttempt(f))
    /\ WF_vars(FanIn)
    /\ WF_vars(Assemble)

SpecLive == Init /\ [][Next]_vars /\ Fairness

----------------------------------------------------------------------------
(* SpecMerge: the merge of the timeline, sorted(set(all_timeline_events),  *)
(* key=lambda x: x.date), in two runs of the program, each on a list of at *)
(* most MaxEvents events.                                                  *)

MaxEvents == 3

\* Two events of the same date, and one of a later date.
MergeEvents ==
    {MapEvent(BaseEventData), MapEvent(VariantEventData("description")),
     MapEvent(VariantEventData("date"))}

EventLists == UNION {[1..n -> MergeEvents] : n \in 0..MaxEvents}

InitMerge ==
    /\ mg \in [inputs : EventLists \X EventLists, outputs : {<<<<>>, <<>>>>},
                ran : {<<FALSE, FALSE>>}]
    /\ ClientIdle /\ ChunkIdle /\ RunIdle /\ ExtractIdle /\ ToolIdle

\* Run k computes its timeline.
MergeRun(k) ==
    /\ ~mg.ran[k]
    /\ \E tl \in SortedByDate(PySet(mg.inputs[k])) :
          mg' = [mg EXCEPT !.outputs[k] = tl, !.ran[k] = TRUE]
    /\ UNCHANGED <<clientVars, chunkVars, runVars, ex, toolVars>>

NextMerge == MergeRun(1) \/ MergeRun(2)

SpecMerge == InitMerge /\ [][NextMerge]_vars

----------------------------------------------------------------------------
(* SpecAssemble: the assembly of the Founder (the part of                  *)
(* extract_founder_data after asyncio.run) on collected results that hold  *)
(* any subset of the facets.                                               *)

FacetNames == {FacetTasks[i] : i \in 1..Len(FacetTasks)}

WellFormedResults == {[f \in K |-> FacetDocFull(f)] : K \in SUBSET FacetNames}

AssembleInputs ==
    WellFormedResults
    \cup {Put(r, "traits", MalformedTraitsDoc) : r \in WellFormedResults}
    \cup {Put([f \in FacetNames |-> FacetDocFull(f)], g, EmptyObject) : g \in FacetNames}

InitAssemble ==
    /\ results \in AssembleInputs
    /\ pc = "assemble"
    /\ basic_info = MapBasicInfo(BasicDocFull)
    /\ timeline = <<MapEvent(BaseEventData)>>
    /\ transcript = <<>> /\ env = "none" /\ chunks = <<>>
    /\ basic_call = IdleCall /\ tl_calls = <<>>
    /\ chunk_events = <<>> /\ all_timeline_events = <<>>
    /\ tasks = [f \in ModelledFacets |-> IdleCall] /\ done_queue = <<>>
    /\ ac_results = EmptyObject /\ ac_keys = <<>>
    /\ founder = NoFounder /\ failure = NoFailure
    /\ ClientIdle /\ ChunkIdle /\ UnitIdle /\ ToolIdle

NextAssemble == Assemble

SpecAssemble == InitAssemble /\ [][NextAssemble]_vars

----------------------------------------------------------------------------
(* SpecExtract: each list extractor on responses whose array holds at most *)
(* MaxItems elements: well-formed records, records that lack one field,    *)
(* records with an undeclared data type.                                   *)

MaxItems == 3

Extractor(fn) == Extractors[CHOOSE i \in 1..Len(Extractors) : Extractors[i].fn = fn]

Without(d, field) == [k \in DOMAIN d \ {field} |-> d[k]]

\* The elements an array given to the extractor may hold.
ElementsFor(sch) ==
    LET a == IF sch.fn = "extract_timeline" THEN BaseEventData
             ELSE SampleRecord(sch.facet)
    IN  {a, [a EXCEPT !.source = "other quote"], [a EXCEPT !.data_type = "Factual"]}
        \cup {Without(a, r) : r \in sch.required}

ResponsesFor(sch) ==
    {EmptyObject}
    \cup {[k \in {sch.key} |-> items] :
            items \in UNION {[1..n -> ElementsFor(sch)] : n \in 0..MaxItems}}

InitExtract ==
    /\ \E i \in 1..Len(Extractors) :
          \E r \in ResponsesFor(Extractors[i]) :
             ex = [fn |-> Extractors[i].fn, result |-> r, status |-> "called",
                   exc |-> "none", value |-> <<>>]
    /\ ClientIdle /\ ChunkIdle /\ RunIdle /\ MergeIdle /\ ToolIdle

\* The extractor maps the response and returns, or raises.
ExtractorReturn ==
    /\ ex.status = "called"
    /\ LET r == ExtractList(Extractor(ex.fn), ex.result)
       IN  ex' = [ex EXCEPT !.status = r.status, !.exc = r.exc, !.value = r.value]
    /\ UNCHANGED <<clientVars, chunkVars, runVars, mg, toolVars>>

NextExtract == ExtractorReturn

SpecExtract == InitExtract /\ [][NextExtract]_vars

----------------------------------------------------------------------------
(* Speech-to-text transcription (transcriptions.py).  An error message is  *)
(* the sequence of its words; a size is a number of megabytes.             *)

MAX_RETRIES == 3

\* 300 * 1024 * 1024
MAX_FILE_SIZE == 300 * 1024 * 1024

\* str.lower(), word by word.
LowerWord(w) ==
    CASE w = "Invalid" -> "invalid"
      [] w = "API"     -> "api"
      [] w = "Request" -> "request"
      [] w = "Timeout" -> "timeout"
      [] w = "Rate"    -> "rate"
      [] OTHER         -> w

lower(msg) == [i \in 1..Len(msg) |-> LowerWord(msg[i])]

\* needle in text
Contains(text, needle) ==
    \E i \in 0..(Len(text) - Len(needle)) : SubSeq(text, i + 1, i + Len(needle)) = needle

Min(a, b) == IF a < b THEN a ELSE b

\* raise Exception("Invalid response format")
InvalidResponseMsg == <<"Invalid", "response", "format">>

\* Messages of the exceptions the transcription service may raise.
ErrorMessages ==
    {<<"Invalid", "API", "key">>,
     <<"Invalid", "API", "key", "after", "timeout">>,
     <<"invalid", "api", "key">>,
     <<"Request", "timeout">>,
     <<"Timeout">>,
     <<"Rate", "limit", "exceeded">>,
     <<"timeout", "on", "rate", "limit">>,
     <<"connection", "reset">>}

\* Outcomes of one call of dg_client.transcription.prerecorded: an
\* exception, a response with 'results', a response without.
TranscriptionOutcomes ==
    {[type |-> "raise", msg |-> m] : m \in ErrorMessages}
    \cup {[type |-> "response", msg |-> <<>>, valid |-> v] : v \in BOOLEAN}

Response == [results |-> "words"]

\* A plausible slip: the timeout test comes before the test of the key.
ErrorClass_TimeoutFirst(error_msg) ==
    IF Contains(lower(error_msg), <<"timeout">>) THEN "timeout"
    ELSE IF Contains(error_msg, <<"Invalid", "API", "key">>) THEN "invalid_key"
    ELSE IF Contains(lower(error_msg), <<"rate", "limit">>) THEN "rate_limit"
    ELSE "other"

\* The if / elif chain of the handler.
ErrorClass(error_msg) ==
    IF Contains(error_msg, <<"Invalid", "API", "key">>) THEN "invalid_key"
    ELSE IF Contains(lower(error_msg), <<"timeout">>) THEN "timeout"
    ELSE IF Contains(lower(error_msg), <<"rate", "limit">>) THEN "rate_limit"
    ELSE "other"

\* A plausible slip: the wait is computed from the failures before this one.
WaitTime_BeforeIncrement(class, retries) ==
    CASE class = "timeout"    -> 30
      [] class = "rate_limit" -> Min(30 * (2 ^ (retries - 1)), 300)
      [] OTHER                -> Min(10 * (2 ^ (retries - 1)), 120)

\* The argument of asyncio.sleep in each branch; retries has been
\* incremented for the failure at hand.
WaitTime(class, retries) ==
    CASE class = "timeout"    -> 30
      [] class = "rate_limit" -> Min(30 * (2 ^ retries), 300)
      [] OTHER                -> Min(10 * (2 ^ retries), 120)

\* A call of transcribe_audio on a file of the size.
NewTranscription(size) ==
    [file_size |-> size, retries |-> 0, status |-> "called", value |-> PyNone,
     log |-> <<>>]

\* The size check before the loop.
CheckFileSize(t) ==
    IF t.file_size > MAX_FILE_SIZE THEN [t EXCEPT !.status = "returned", !.value = PyNone]
    ELSE [t EXCEPT !.status = "running"]

\* A plausible slip: the function gives up when the failures exceed
\* MAX_RETRIES, one attempt too late.
transcribe_audio_OneMoreAttempt(t, o) ==
    IF o.type = "response" /\ o.valid
    THEN [t EXCEPT !.status = "returned", !.value = Response]
    ELSE LET error_msg == IF o.type = "response" THEN InvalidResponseMsg ELSE o.msg
             retries == t.retries + 1
             class == ErrorClass(error_msg)
         IN  IF class = "invalid_key"
             THEN [t EXCEPT !.retries = retries, !.status = "returned", !.value = PyNone,
                            !.log = Append(@, [msg |-> error_msg, wait |-> 0])]
             ELSE LET slept == [t EXCEPT !.retries = retries,
                                  !.log = Append(@, [msg |-> error_msg,
                                                     wait |-> WaitTime(class, retries)])]
                  IN  IF retries = MAX_RETRIES + 1
                      THEN [slept EXCEPT !.status = "returned", !.value = PyNone]
                      ELSE slept

\* One iteration of while retries < MAX_RETRIES, the service call ending
\* with outcome o.  log records the message of each failed attempt and the
\* seconds slept after it (0: no sleep).
transcribe_audio(t, o) ==
    IF o.type = "response" /\ o.valid
    THEN [t EXCEPT !.status = "returned", !.value = Response]
    ELSE LET error_msg == IF o.type = "response" THEN InvalidResponseMsg ELSE o.msg
             retries == t.retries + 1
             class == ErrorClass(error_msg)
         IN  IF class = "invalid_key"
             THEN [t EXCEPT !.retries = retries, !.status = "returned", !.value = PyNone,
                            !.log = Append(@, [msg |-> error_msg, wait |-> 0])]
             ELSE LET slept == [t EXCEPT !.retries = retries,
                                  !.log = Append(@, [msg |-> error_msg,
                                                     wait |-> WaitTime(class, retries)])]
                  IN  IF retries = MAX_RETRIES
                      THEN [slept EXCEPT !.status = "returned", !.value = PyNone]
                      ELSE slept

\* The transcription batch (main of transcriptions.py).  The files of the
\* podcast directory are numbered in the order of the sort by size.
MaxFiles == 3
MaxRuns == 2

mp3_files == [i \in 1..MaxFiles |-> i]

\* The progress file: absent, or the list of names it holds.
NoProgressFile == [exists |-> FALSE, files |-> {}]
ProgressFile(files) == [exists |-> TRUE, files |-> files]

\* What a file of the batch may meet: transcribe_audio returns a response
\* or None, it raises, or the output file cannot be written.
BatchOutcomes == {"response", "none", "raises", "write_fails"}

\* The state of main before the loop: completed_files is the set loaded
\* from the progress file, or the empty set.
LoadProgress(b) ==
    LET done == IF b.progress.exists THEN b.progress.files ELSE {}
    IN  [b EXCEPT !.pc = "loop", !.i = 1, !.loaded = done, !.completed_files = done,
                  !.completed = Cardinality(done), !.failed = 0]

\* A plausible slip: a file is marked as done whatever transcribe_audio
\* returned.
ProcessFile_RecordsFailed(b, mp3_file, o) ==
    LET sent == [b EXCEPT !.sent[b.run] = Append(@, mp3_file)]
        done == b.completed_files \cup {mp3_file}
    IN  IF mp3_file \in b.completed_files THEN b
        ELSE IF o = "response"
        THEN [sent EXCEPT !.outputs = @ \cup {mp3_file},
                          !.completed = @ + 1,
                          !.completed_files = done,
                          !.progress = ProgressFile(done),
                          !.successes[b.run] = @ \cup {mp3_file}]
        ELSE [sent EXCEPT !.failed = @ + 1,
                          !.completed_files = done,
                          !.progress = ProgressFile(done),
                          !.failures[b.run] = @ \cup {mp3_file}]

\* The body of the loop for one file: a file of completed_files is passed
\* over; another is sent to transcribe_audio, and on a response its output
\* is written, it is added to completed_files and the progress file is
\* rewritten; otherwise it is counted as failed.
ProcessFile(b, mp3_file, o) ==
    LET sent == [b EXCEPT !.sent[b.run] = Append(@, mp3_file)]
        done == b.completed_files \cup {mp3_file}
    IN  IF mp3_file \in b.completed_files THEN b
        ELSE IF o = "response"
        THEN [sent EXCEPT !.outputs = @ \cup {mp3_file},
                          !.completed = @ + 1,
                          !.completed_files = done,
                          !.progress = ProgressFile(done),
                          !.successes[b.run] = @ \cup {mp3_file}]
        ELSE [sent EXCEPT !.failed = @ + 1,
                          !.failures[b.run] = @ \cup {mp3_file}]

\* The download of the episodes (PodcastDownloader of download_podcasts.py).
\* An episode is its title; the file of an episode is named by its title.
CONCURRENT_DOWNLOADS == 5

Titles == 1..6

\* The feeds: six episodes (two batches), two episodes of one title in a
\* batch, an episode whose title returns in the next batch, an episode
\* whose file is on disk before the run.
Feeds ==
    {[name |-> "six",     episodes |-> <<1, 2, 3, 4, 5, 6>>, on_disk |-> {}],
     [name |-> "twins",   episodes |-> <<1, 1, 2>>,          on_disk |-> {}],
     [name |-> "returns", episodes |-> <<1, 2, 3, 4, 5, 1>>, on_disk |-> {}],
     [name |-> "kept",    episodes |-> <<1, 2>>,             on_disk |-> {1}]}

\* _load_tracking after __init__ has deleted the tracking file.
NewTracking == [downloaded |-> <<>>, failed |-> <<>>]

NoTrackingFile == [exists |-> FALSE, downloaded |-> <<>>, failed |-> <<>>]

\* _save_tracking
TrackingFile(tr) == [exists |-> TRUE, downloaded |-> tr.downloaded, failed |-> tr.failed]

\* x in list
InList(l, x) == \E i \in 1..Len(l) : l[i] = x

\* list.remove(x): the first occurrence goes.
Remove(l, x) ==
    LET i == CHOOSE k \in 1..Len(l) : l[k] = x /\ \A j \in 1..(k - 1) : l[j] # x
    IN  SubSeq(l, 1, i - 1) \o SubSeq(l, i + 1, Len(l))

\* The body of for episode, task in tasks, after success = await task.
RecordDownload(tr, title, success) ==
    IF success
    THEN [downloaded |-> Append(tr.downloaded, title),
          failed |-> IF InList(tr.failed, title) THEN Remove(tr.failed, title)
                     ELSE tr.failed]
    ELSE [downloaded |-> tr.downloaded, failed |-> Append(tr.failed, title)]

\* episodes_to_download[i:i + CONCURRENT_DOWNLOADS]
Batch(episodes, i) ==
    SubSeq(episodes, i + 1, Min(i + CONCURRENT_DOWNLOADS, Len(episodes)))

\* The tasks of a batch once the loop that created them waits for the
\* first: each has run download_episode up to its request, or has returned
\* True because its file exists.
StartTasks(batch, disk) ==
    [k \in 1..Len(batch) |->
        [title |-> batch[k], linked |-> FALSE,
         status |-> IF disk[batch[k]] # "absent" THEN "ok" ELSE "fetching"]]

\* os.remove(filepath) in the handler of download_episode: the name goes,
\* and a task that has the file open writes on to a file without a name.
Unlinked(ts, title) ==
    [k \in 1..Len(ts) |-> IF ts[k].title = title THEN [ts[k] EXCEPT !.linked = FALSE]
                          ELSE ts[k]]

\* The handler of download_episode in task k: the file is removed if it
\* exists, and the task returns False.
DownloadFails(d, k) ==
    LET title == d.tasks[k].title
    IN  [d EXCEPT !.tasks = [Unlinked(d.tasks, title) EXCEPT ![k].status = "failed"],
                  !.disk[title] = "absent"]

\* The response of task k has status 200: open(filepath, 'wb').
DownloadOpens(d, k) ==
    [d EXCEPT !.tasks[k].status = "writing", !.tasks[k].linked = TRUE,
              !.disk[d.tasks[k].title] = "partial"]

\* Task k has written its last block and returns True.
DownloadCompletes(d, k) ==
    LET title == d.tasks[k].title
        others == \E j \in 1..Len(d.tasks) :
                     /\ j # k /\ d.tasks[j].title = title
                     /\ d.tasks[j].status = "writing" /\ d.tasks[j].linked
    IN  [d EXCEPT !.tasks[k].status = "ok",
                  !.disk[title] = IF d.tasks[k].linked /\ ~others THEN "complete" ELSE @]

Done(task) == task.status \in {"ok", "failed"}

\* success = await task, for the tasks from the awaited one on that are
\* done: each is recorded.
RECURSIVE AwaitTasks(_)
AwaitTasks(d) ==
    IF d.awaited <= Len(d.tasks) /\ Done(d.tasks[d.awaited])
    THEN CHOOSE r \in
            {AwaitTasks(next) :
                next \in {[d EXCEPT
                             !.tracking = RecordDownload(@, d.tasks[d.awaited].title,
                                                         d.tasks[d.awaited].status = "ok"),
                             !.done = Append(@, d.tasks[d.awaited].status = "ok"),
                             !.awaited = @ + 1]}} : TRUE
    ELSE d

\* The next iteration of for i in range(0, len(episodes_to_download),
\* CONCURRENT_DOWNLOADS), or the end of download_all.
NextBatch(d, i) ==
    IF i < Len(d.episodes)
    THEN [d EXCEPT !.pc = "batch", !.i = i,
                   !.tasks = StartTasks(Batch(d.episodes, i), d.disk), !.awaited = 1]
    ELSE [d EXCEPT !.pc = "done", !.i = i, !.tasks = <<>>, !.awaited = 1]

\* After the last task of the batch: self._save_tracking().
SaveTracking(d) == [d EXCEPT !.saved = TrackingFile(d.tracking), !.saves = @ + 1]

----------------------------------------------------------------------------
(* SpecTranscribe: transcribe_audio on one file, one step for the size     *)
(* check and one for each attempt.                                         *)

\* Sizes of the files, in megabytes.
FileSizes == {1, 350}

InitTranscribe ==
    /\ ta \in {NewTranscription(s) : s \in FileSizes}
    /\ tb = IdleBatch /\ dl = IdleDownloader
    /\ ClientIdle /\ ChunkIdle /\ RunIdle /\ UnitIdle

TranscribeCall ==
    /\ ta.status = "called"
    /\ ta' = CheckFileSize(ta)
    /\ UNCHANGED <<clientVars, chunkVars, runVars, unitVars, tb, dl>>

TranscribeAttempt ==
    /\ ta.status = "running"
    /\ \E o \in TranscriptionOutcomes : ta' = transcribe_audio(ta, o)
    /\ UNCHANGED <<clientVars, chunkVars, runVars, unitVars, tb, dl>>

NextTranscribe == TranscribeCall \/ TranscribeAttempt

SpecTranscribe == InitTranscribe /\ [][NextTranscribe]_vars

----------------------------------------------------------------------------
(* SpecBatch: main of transcriptions.py, run MaxRuns times over the same   *)
(* MaxFiles files, the first run finding any progress file or none.  A run *)
(* may be interrupted between two files.                                   *)

NewBatch(p) ==
    [run |-> 1, pc |-> "load", i |-> 1, loaded |-> {}, completed_files |-> {},
     completed |-> 0, failed |-> 0,
     sent |-> [r \in 1..MaxRuns |-> <<>>],
     successes |-> [r \in 1..MaxRuns |-> {}],
     failures |-> [r \in 1..MaxRuns |-> {}],
     interrupted |-> [r \in 1..MaxRuns |-> FALSE],
     outputs |-> p.files, progress |-> p, first_progress |-> p]

InitBatch ==
    /\ tb \in {NewBatch(p) : p \in {NoProgressFile} \cup
                                   {ProgressFile(S) : S \in SUBSET (1..MaxFiles)}}
    /\ ta = IdleTranscription /\ dl = IdleDownloader
    /\ ClientIdle /\ ChunkIdle /\ RunIdle /\ UnitIdle

BatchLoad ==
    /\ tb.pc = "load"
    /\ tb' = LoadProgress(tb)
    /\ UNCHANGED <<clientVars, chunkVars, runVars, unitVars, ta, dl>>

\* One iteration of the loop over mp3_files; after the last the run ends.
BatchFile ==
    /\ tb.pc = "loop"
    /\ \E o \in BatchOutcomes :
       \E b \in {ProcessFile(tb, mp3_files[tb.i], o)} :
          tb' = IF tb.i = Len(mp3_files) THEN [b EXCEPT !.i = @ + 1, !.pc = "ended"]
                ELSE [b EXCEPT !.i = @ + 1]
    /\ UNCHANGED <<clientVars, chunkVars, runVars, unitVars, ta, dl>>

\* KeyboardInterrupt
BatchInterrupt ==
    /\ tb.pc = "loop"
    /\ tb' = [tb EXCEPT !.pc = "ended", !.interrupted[tb.run] = TRUE]
    /\ UNCHANGED <<clientVars, chunkVars, runVars, unitVars, ta, dl>>

\* The script is started again.
BatchRerun ==
    /\ tb.pc = "ended"
    /\ tb.run < MaxRuns
    /\ tb' = [tb EXCEPT !.run = @ + 1, !.pc = "load", !.i = 1, !.loaded = {},
                        !.completed_files = {}, !.completed = 0, !.failed = 0]
    /\ UNCHANGED <<clientVars, chunkVars, runVars, unitVars, ta, dl>>

NextBatchRun == BatchLoad \/ BatchFile \/ BatchInterrupt \/ BatchRerun

SpecBatch == InitBatch /\ [][NextBatchRun]_vars

----------------------------------------------------------------------------
(* SpecDownload: PodcastDownloader().download_all() on each feed.  A step  *)
(* is the start of download_all, an event of one download, or the part of  *)
(* download_all that runs when the task it waits for is done.              *)

NewDownloader(feed) ==
    [feed |-> feed.name, episodes |-> feed.episodes, pc |-> "constructed", i |-> 0,
     tasks |-> <<>>, awaited |-> 1, tracking |-> NewTracking, saved |-> NoTrackingFile,
     saves |-> 0, done |-> <<>>,
     disk |-> [t \in Titles |-> IF t \in feed.on_disk THEN "complete" ELSE "absent"]]

InitDownload ==
    /\ dl \in {NewDownloader(f) : f \in Feeds}
    /\ ta = IdleTranscription /\ tb = IdleBatch
    /\ ClientIdle /\ ChunkIdle /\ RunIdle /\ UnitIdle

\* download_all up to its first await.
DownloadAll ==
    /\ dl.pc = "constructed"
    /\ dl' = NextBatch(dl, 0)
    /\ UNCHANGED <<clientVars, chunkVars, runVars, unitVars, ta, tb>>

\* The request of task k is answered: with an error, or with status 200.
DownloadResponse(k) ==
    /\ dl.pc = "batch"
    /\ dl.tasks[k].status = "fetching"
    /\ dl' \in {DownloadFails(dl, k), DownloadOpens(dl, k)}
    /\ UNCHANGED <<clientVars, chunkVars, runVars, unitVars, ta, tb>>

\* The body of the response of task k ends: broken off, or whole.
DownloadWrite(k) ==
    /\ dl.pc = "batch"
    /\ dl.tasks[k].status = "writing"
    /\ dl' \in {DownloadFails(dl, k), DownloadCompletes(dl, k)}
    /\ UNCHANGED <<clientVars, chunkVars, runVars, unitVars, ta, tb>>

\* download_all goes on once the task it waits for is done: it records
\* the tasks that are done, and after the last task of the batch it saves
\* the tracking data and starts the next batch, or ends.
MainResumes ==
    /\ dl.pc = "batch"
    /\ dl.awaited <= Len(dl.tasks)
    /\ Done(dl.tasks[dl.awaited])
    /\ \E a \in {AwaitTasks(dl)} :
          dl' = IF a.awaited > Len(a.tasks)
                THEN NextBatch(SaveTracking(a), a.i + CONCURRENT_DOWNLOADS)
                ELSE a
    /\ UNCHANGED <<clientVars, chunkVars, runVars, unitVars, ta, tb>>

NextDownload ==
    \/ DownloadAll
    \/ \E k \in 1..Len(dl.tasks) : DownloadResponse(k)
    \/ \E k \in 1..Len(dl.tasks) : DownloadWrite(k)
    \/ MainResumes

SpecDownload == InitDownload /\ [][NextDownload]_vars

----------------------------------------------------------------------------
(* Properties of the completion client (SpecClient).                       *)

\* The outcome that attempt k of a client was given.
Given(k) == served[k]

\* The three kinds of failed attempt, read off the outcome served.
IsServiceFailure(o) == o.type = "raise"
IsEmptyBody(o) ==
    /\ o.type = "answer"
    /\ \A i \in 1..Len(Render(o)) : IsSpace(Render(o)[i])
IsUndecodable(o) ==
    /\ o.type = "answer"
    /\ ~IsEmptyBody(o)
    /\ \/ o.shape \notin {"json", "json_lines"}
       \/ o.wrap \in IllFormedFences
FailingKind(o) == IsServiceFailure(o) \/ IsEmptyBody(o) \/ IsUndecodable(o)

ExhaustedAsItShould(c) ==
    /\ c.attempt <= DefaultMaxRetries
    /\ c.attempt = DefaultMaxRetries => c.status # "running"
    /\ (c.attempt >= 1 /\ \A k \in 1..c.attempt : FailingKind(Given(k))) =>
          IF c.attempt < DefaultMaxRetries THEN c.status = "running"
          ELSE c.status = "raised"
    /\ c.status = "raised" =>
          /\ c.attempt = DefaultMaxRetries
          /\ \A k \in 1..DefaultMaxRetries : FailingKind(Given(k))
          /\ c.error.attempt = DefaultMaxRetries
          /\ IsServiceFailure(Given(DefaultMaxRetries)) =>
                c.error.exc = Given(DefaultMaxRetries).exc
          /\ IsEmptyBody(Given(DefaultMaxRetries)) => c.error.exc = "ValueError"
          /\ IsUndecodable(Given(DefaultMaxRetries)) => c.error.exc = "JSONDecodeError"

\* C1: when every attempt fails, either client makes exactly
\* DefaultMaxRetries (3) attempts, never a 4th and never fewer, and raises
\* the error of the last attempt.
C1_RetryExhaustion == ExhaustedAsItShould(sync) /\ ExhaustedAsItShould(async)

\* Both clients raised after three failures of which the first and the
\* last are different transport errors.
C1_Witness ==
    /\ sync.status = "raised" /\ async.status = "raised"
    /\ IsServiceFailure(Given(1)) /\ IsServiceFailure(Given(3))
    /\ Given(1).exc # Given(3).exc
    /\ sync.error.exc = Given(3).exc

FailureIsRetried(c) ==
    /\ c.attempt <= Len(served)
    /\ c.attempt >= 1 =>
          /\ \A k \in 1..(c.attempt - 1) : FailingKind(Given(k))
          /\ FailingKind(Given(c.attempt)) =>
                /\ c.status # "returned"
                /\ c.value = NoValue
                /\ c.attempt < DefaultMaxRetries => c.status = "running"

\* C2: a raising service call, an empty body and an undecodable body each
\* use up one attempt, are followed by another attempt while the budget
\* lasts, and are never returned as a value.
C2_FailureKindsRetried == FailureIsRetried(sync) /\ FailureIsRetried(async)

\* The three kinds of failure in a row, each having cost one attempt.
C2_Witness ==
    /\ sync.attempt = 3 /\ Len(served) = 3
    /\ IsServiceFailure(Given(1)) /\ IsEmptyBody(Given(2)) /\ IsUndecodable(Given(3))
    /\ sync.status = "raised"

\* C3: given the same outcomes, the blocking and the awaitable client make
\* the same attempts and end alike, the awaitable one pairing the value
\* with its extraction type.
C3_ClientsAgree ==
    sync.attempt = async.attempt =>
        /\ sync.status = async.status
        /\ sync.error = async.error
        /\ sync.status = "returned" =>
              async.value = [extraction_type |-> "traits", data |-> sync.value]

\* Both clients returned the value of a fenced answer to their second attempt.
C3_Witness ==
    /\ sync.status = "returned" /\ async.status = "returned"
    /\ sync.attempt = 2 /\ async.attempt = 2
    /\ IsEmptyBody(Given(1))
    /\ Given(2).wrap = "fenced"

Data(c) == IF "data" \in DOMAIN c.value THEN c.value.data ELSE c.value

FenceIsTransparent(c) ==
    c.attempt >= 1 =>
        LET o == Given(c.attempt)
        IN  (o.type = "answer" /\ o.wrap \in WellFormedFences) =>
               IF JsonDecodes(BodyText(o.shape))
               THEN /\ c.status = "returned"
                    /\ Data(c) = json_loads(BodyText(o.shape), o.doc)
               ELSE c.status # "returned"

\* C4: an answer that is a well-formed fenced block around a body is
\* decoded as the body alone is: the value of the body when the body is
\* JSON, a failed attempt when it is not.
C4_FencedParsesAsPlain == FenceIsTransparent(sync) /\ FenceIsTransparent(async)

\* A three-line JSON body in a padded fence, returned by both clients.
C4_Witness ==
    /\ sync.status = "returned" /\ async.status = "returned"
    /\ sync.attempt = 1 /\ async.attempt = 1
    /\ Given(1).wrap = "fenced_padded" /\ Given(1).shape = "json_lines"
    /\ sync.value = Given(1).doc

StopsAtFirstSuccess(c) ==
    \A k \in 1..Len(served) :
        (/\ k <= DefaultMaxRetries
         /\ ~FailingKind(Given(k))
         /\ \A j \in 1..(k - 1) : FailingKind(Given(j))) =>
            /\ c.attempt <= k
            /\ c.attempt < k => c.status = "running" /\ c.value = NoValue
            /\ c.attempt = k =>
                  /\ c.status = "returned"
                  /\ Data(c) = json_loads(BodyText(Given(k).shape), Given(k).doc)
                  /\ c.error = NoError

\* C34: when attempt k is the first to give a non-empty body that decodes
\* as JSON, either client makes exactly k attempts and returns the value
\* decoded from that body; the errors of the attempts before it are not
\* raised to the caller.
C34_StopsAtFirstSuccess == StopsAtFirstSuccess(sync) /\ StopsAtFirstSuccess(async)

\* A transport error, then an undecodable body, then a decodable one: both
\* clients returned its value at their third attempt.
C34_Witness ==
    /\ Len(served) = 3
    /\ IsServiceFailure(Given(1)) /\ IsUndecodable(Given(2)) /\ ~FailingKind(Given(3))
    /\ sync.attempt = 3 /\ sync.status = "returned" /\ sync.value = Given(3).doc
    /\ async.attempt = 3 /\ async.status = "returned" /\ async.value.data = Given(3).doc

----------------------------------------------------------------------------
(* Properties of the chunker (SpecChunk).                                  *)

\* C5 (as claimed): the chunks joined with the paragraph separator are the
\* transcript, for every transcript and budget.
C5_JoinRestoresTranscript ==
    ck.done => join(ck.chunks, ParagraphSep) = ckin.transcript

\* C6 (as claimed): a chunk of several paragraphs, or of one paragraph
\* within budget, has at most max_tokens tokens.
C6_ChunkWithinBudget ==
    ck.done =>
        \A j \in 1..Len(ck.chunks) :
            LET paras == split(ck.chunks[j], ParagraphSep)
            IN  (Len(paras) > 1 \/ count_tokens(paras[1]) <= ckin.max_tokens)
                    => count_tokens(ck.chunks[j]) <= ckin.max_tokens

\* The tokens of paragraphs lo..hi, separators left out.
RECURSIVE ParagraphTokens(_, _, _)
ParagraphTokens(P, lo, hi) ==
    IF lo > hi THEN 0 ELSE count_tokens(P[lo]) + ParagraphTokens(P, lo + 1, hi)

\* The paragraph that begins the chunk paragraph c would join, given the
\* paragraphs C that begin a chunk after one was closed.
ChunkBegin(C, c) ==
    IF \E k \in C : k < c
    THEN CHOOSE k \in C : k < c /\ \A j \in C : j < c => j <= k
    ELSE 1

\* The paragraphs before which a chunk is closed: those whose tokens, added
\* to the tokens of the paragraphs of the chunk so far, exceed the budget.
Closings(P, max_tokens) ==
    CHOOSE C \in SUBSET (1..Len(P)) :
        \A c \in 1..Len(P) :
            c \in C <=> ParagraphTokens(P, ChunkBegin(C, c), c - 1) + count_tokens(P[c])
                            > max_tokens

\* The chunks that closing before the paragraphs of C gives: each holds
\* consecutive whole paragraphs, and the chunk closed before paragraph 1
\* holds none.
ChunksClosedAt(P, C) ==
    LET S == C \cup {1}
        nth(j) == CHOOSE s \in S : Cardinality({t \in S : t <= s}) = j
        last(j) == IF j = Cardinality(S) THEN Len(P) ELSE nth(j + 1) - 1
    IN  (IF 1 \in C THEN <<join(<<>>, ParagraphSep)>> ELSE <<>>)
        \o [j \in 1..Cardinality(S) |-> join(SubSeq(P, nth(j), last(j)), ParagraphSep)]

\* C28: the chunks are the paragraphs of the transcript, whole and in
\* order, cut exactly before each paragraph that would take the running
\* count of the chunk over max_tokens, that paragraph beginning the next
\* chunk.
C28_ChunksAreWholeParagraphs ==
    ck.done =>
        LET P == split(ckin.transcript, ParagraphSep)
        IN  ck.chunks = ChunksClosedAt(P, Closings(P, ckin.max_tokens))

\* Two chunks: one within budget, then a paragraph that alone exceeds it.
C28_Witness ==
    /\ ck.done
    /\ Len(ck.chunks) = 2
    /\ ck.chunks[1] # <<>>
    /\ count_tokens(ck.chunks[1]) <= ckin.max_tokens
    /\ count_tokens(ck.chunks[2]) > ckin.max_tokens

\* C35: chunk_transcript returns at least one chunk, whatever the
\* transcript (the empty one included) and the budget: chunks[0] exists.
C35_AtLeastOneChunk ==
    ck.done => Len(ck.chunks) >= 1 /\ 1 \in DOMAIN ck.chunks

\* The empty transcript under a budget of no token: one chunk, the empty
\* text.
C35_Witness ==
    /\ ck.done
    /\ ckin.transcript = <<>> /\ ckin.max_tokens = 0
    /\ ck.chunks = <<<<>>>>

\* C36 (as claimed): when no paragraph of the transcript is empty, no
\* chunk is empty, and chunk 0 begins with the first paragraph.
C36_NoEmptyChunk ==
    LET P == split(ckin.transcript, ParagraphSep)
    IN  (ck.done /\ \A i \in 1..Len(P) : P[i] # <<>>) =>
            /\ \A j \in 1..Len(ck.chunks) : ck.chunks[j] # <<>>
            /\ split(ck.chunks[1], ParagraphSep)[1] = P[1]

----------------------------------------------------------------------------
(* Properties of extract_founder_data (Spec).                              *)

Finished(c) == c.status \in {"returned", "raised"}

\* C7: the basic-info call finishes before the first timeline call starts,
\* the timeline calls run one at a time in chunk order, and no concurrent
\* request is made before the last timeline call has finished.
C7_CallsInOrder ==
    /\ tl_calls # <<>> => basic_call.status = "returned"
    /\ basic_call.status = "idle" => pc = "start"
    /\ Len(tl_calls) <= Len(chunks)
    /\ \A i \in 1..Len(tl_calls) :
          /\ tl_calls[i].prompt.text = chunks[i]
          /\ i < Len(tl_calls) => Finished(tl_calls[i])
    /\ (\E f \in ModelledFacets : tasks[f].status # "idle") =>
          /\ Len(tl_calls) = Len(chunks)
          /\ \A i \in 1..Len(tl_calls) : Finished(tl_calls[i])

\* The concurrent requests are in flight after three timeline calls.
C7_Witness ==
    /\ pc = "fanout"
    /\ Len(chunks) = 3 /\ Len(tl_calls) = 3
    /\ \A f \in ModelledFacets : tasks[f].status = "running"

BasicFailed ==
    \/ basic_call.status = "raised"
    \/ basic_call.status = "returned" /\ ~BasicInfoMaps(basic_call.value)

\* C8: when the basic-info extraction fails, the run raises that failure,
\* with no fallback value, no Founder, no timeline call and no concurrent
\* request.
C8_BasicInfoFatal ==
    BasicFailed =>
        /\ pc = "raised"
        /\ failure.origin = "basic_info"
        /\ basic_call.status = "raised" =>
              /\ failure.exc = basic_call.error.exc
              /\ failure.attempt = DefaultMaxRetries
        /\ (basic_call.status = "returned" /\ "name" \notin DOMAIN basic_call.value) =>
              failure.exc = "KeyError"
        /\ basic_info = NoValue
        /\ founder = NoFounder
        /\ tl_calls = <<>> /\ all_timeline_events = <<>>
        /\ \A f \in ModelledFacets : tasks[f].status = "idle"

\* The basic-info call of a two-chunk transcript used up its retries.
C8_Witness ==
    /\ pc = "raised"
    /\ basic_call.status = "raised" /\ basic_call.attempt = 3
    /\ Len(chunks) = 2

RECURSIVE Concat(_)
Concat(seqs) == IF seqs = <<>> THEN <<>> ELSE Head(seqs) \o Concat(Tail(seqs))

\* What the timeline call of a chunk yielded: its mapped events, or none
\* when it raised.
Yield(c) == IF c.status = "returned" THEN extract_timeline_events(c.value) ELSE <<>>

\* C9: a chunk whose timeline call used up its retries contributes no
\* event, the later chunks are still extracted, the events of the other
\* chunks are kept, and the run goes on to the concurrent requests.
C9_ChunkFailureIsolated ==
    /\ Len(chunk_events) =
          Cardinality({i \in 1..Len(tl_calls) : Finished(tl_calls[i])})
    /\ \A i \in 1..Len(chunk_events) : chunk_events[i] = Yield(tl_calls[i])
    /\ all_timeline_events = Concat(chunk_events)
    /\ \A i \in 1..Len(tl_calls) :
          tl_calls[i].status = "raised" =>
              /\ failure.origin # "timeline"
              /\ i < Len(chunks) => Len(tl_calls) > i
              /\ i = Len(chunks) => pc \in {"merge", "fanout", "assemble",
                                            "returned", "raised"}
    /\ pc = "raised" => failure.origin \in {"basic_info", "assemble"} \cup ModelledFacets

\* Of three chunks the first and the last failed; the concurrent requests
\* are in flight and the events of the second chunk are kept.
C9_Witness ==
    /\ pc = "fanout"
    /\ Len(tl_calls) = 3
    /\ tl_calls[1].status = "raised" /\ tl_calls[2].status = "returned"
    /\ tl_calls[3].status = "raised"
    /\ Len(all_timeline_events) = 1

Merged == pc \in {"fanout", "assemble", "returned"} \/ (pc = "raised" /\ failure.origin # "basic_info")

\* C10: the final timeline holds each distinct extracted event exactly
\* once: events that differ in any field are both kept, events equal in
\* every field are merged, and no event of a successful chunk is lost.
C10_TimelineDistinctEvents ==
    Merged =>
        /\ all_timeline_events = Concat([i \in 1..Len(tl_calls) |-> Yield(tl_calls[i])])
        /\ \A k \in 1..Len(all_timeline_events) :
              Cardinality({i \in 1..Len(timeline) :
                              timeline[i] = all_timeline_events[k]}) = 1
        /\ \A i \in 1..Len(timeline) :
              \E k \in 1..Len(all_timeline_events) : timeline[i] = all_timeline_events[k]
        /\ pc = "returned" => founder.timeline = timeline

\* Two chunks gave the base event twice and two variants of it, each
\* differing from it in one field: the Founder holds three events.
C10_Witness ==
    /\ pc = "returned"
    /\ Len(all_timeline_events) = 4
    /\ Len(founder.timeline) = 3
    /\ \E i, j \in 1..3 :
          /\ founder.timeline[i].date = founder.timeline[j].date
          /\ founder.timeline[i].event_type # founder.timeline[j].event_type

\* a <= b in the lexicographic order of code points: a is a prefix of b, or
\* a has the lesser code point where they first differ.
LexLeq(a, b) ==
    \/ /\ Len(a) <= Len(b)
       /\ \A j \in 1..Len(a) : a[j] = b[j]
    \/ \E k \in 1..Len(a) :
          /\ k <= Len(b)
          /\ \A j \in 1..(k - 1) : a[j] = b[j]
          /\ a[k] < b[k]

Dates(tl) == [i \in 1..Len(tl) |-> tl[i].date]

\* C11: the final timeline is in ascending lexicographic order of the date
\* strings; events dated 1999, 1999-06 and 2000 come in that order.
C11_TimelineSortedByDate ==
    Merged =>
        /\ \A i \in 1..(Len(timeline) - 1) :
              LexLeq(timeline[i].date, timeline[i + 1].date)
        /\ (/\ Len(timeline) = 3
            /\ {timeline[i].date : i \in 1..3} = {Date1999, Date1999_06, Date2000}) =>
              Dates(timeline) = <<Date1999, Date1999_06, Date2000>>
        /\ pc = "returned" => Dates(founder.timeline) = Dates(timeline)

\* Events extracted in the order 2000, 1999-06, 1999 are returned in the
\* order 1999, 1999-06, 2000.
C11_Witness ==
    /\ pc = "returned"
    /\ Dates(all_timeline_events) = <<Date2000, Date1999_06, Date1999>>
    /\ Dates(founder.timeline) = <<Date1999, Date1999_06, Date2000>>

\* C13 (as claimed): the prompt of every concurrent request holds the
\* whole transcript given to extract_founder_data.
C13_FacetPromptsHoldTranscript ==
    \A f \in ModelledFacets :
        tasks[f].status # "idle" => tasks[f].prompt.text = transcript

AllReturned == \A f \in ModelledFacets : tasks[f].status = "returned"

\* The answers the concurrent tasks ended with, whatever the order.
Answered == [f \in ModelledFacets |-> tasks[f].value.data]

\* C14: when every concurrent task succeeds, the Founder is decided by the
\* answers the tasks ended with, not by the order in which the tasks and
\* their retries completed.
C14_InterleavingIrrelevant ==
    /\ pc \in {"assemble", "returned"} => AllReturned /\ results = Answered
    /\ pc = "returned" =>
          founder = BuildFounder(MapBasicInfo(basic_call.value), timeline, Answered)

\* The tasks completed in the reverse of the order they were created in,
\* the first of them after two retries, and the Founder holds its records.
C14_Witness ==
    /\ pc = "returned"
    /\ ac_keys = <<"emotional_intelligence", "beliefs", "traits">>
    /\ tasks["traits"].attempt = 3 /\ tasks["emotional_intelligence"].attempt = 1
    /\ founder.traits = <<TraitData>>
    /\ Len(founder.beliefs) = 2

Exhausted(f) == tasks[f].status = "raised"

InQueue(f) == \E i \in 1..Len(done_queue) : done_queue[i] = f

\* C15: when a concurrent task used up its retries, the fan-out fails with
\* the error of such a task, the run raises it, no Founder is built and the
\* answers of the tasks that had completed are not returned.
C15_FacetFailureAbortsFanout ==
    \A f \in ModelledFacets :
        Exhausted(f) =>
            /\ pc \in {"fanout", "raised"}
            /\ pc = "fanout" => InQueue(f)
            /\ pc = "raised" =>
                  /\ failure.origin \in ModelledFacets
                  /\ Exhausted(failure.origin)
                  /\ failure.exc = tasks[failure.origin].error.exc
                  /\ failure.attempt = DefaultMaxRetries
            /\ founder = NoFounder
            /\ results = EmptyObject

\* The last task to complete used up its retries after the other two had
\* answered: their answers were collected and are lost.
C15_Witness ==
    /\ pc = "raised"
    /\ failure.origin = "beliefs"
    /\ ac_keys = <<"emotional_intelligence", "traits">>
    /\ ac_results["traits"] = FacetDocFull("traits")
    /\ results = EmptyObject /\ founder = NoFounder

EmptyEI ==
    [stress_management |-> <<>>, leadership_style |-> <<>>,
     source |-> "", confidence |-> "0.0", data_type |-> "FACTUAL"]

\* C17 (as claimed): when the emotional-intelligence request alone uses
\* up its retries, the run returns a Founder with the empty default.
C17_EIFailureDefaults ==
    (/\ Exhausted("emotional_intelligence")
     /\ \A f \in ModelledFacets \ {"emotional_intelligence"} :
           tasks[f].status = "returned"
     /\ pc # "fanout") =>
        /\ pc = "returned"
        /\ founder.emotional_intelligence =
              [stress_management |-> <<>>, leadership_style |-> <<>>,
               source |-> "", confidence |-> "0.0", data_type |-> "FACTUAL"]

\* The field of the Founder that holds the records of a list facet.
FounderField(f) ==
    CASE f = "mentors"    -> "mentors_and_network"
      [] f = "approaches" -> "unique_approaches"
      [] OTHER            -> f

\* The list facets among the concurrent tasks that the model follows.
ListedFacets == ModelledFacets \ {"emotional_intelligence"}

HasRequired(f, x) == ListFacet(f).required \subseteq DOMAIN x

\* The elements of the array answered for list facet f that hold every
\* required key.
ValidItems(f) ==
    LET Valid(x) == HasRequired(f, x)
    IN  SelectSeq(FacetItems(Answered, ListFacet(f)), Valid)

SomeElementMalformed ==
    \E f \in ListedFacets :
        \E i \in 1..Len(FacetItems(Answered, ListFacet(f))) :
            ~HasRequired(f, FacetItems(Answered, ListFacet(f))[i])

\* C19 (as claimed): in a full run, an element without a required key in
\* the array answered for a concurrent facet is skipped: the run returns a
\* Founder that holds the valid records of the facet.
C19_MalformedElementSkipped ==
    (/\ AllReturned /\ pc \in {"returned", "raised"}
     /\ EIConstructs(Answered)
     /\ SomeElementMalformed) =>
        /\ pc = "returned"
        /\ \A f \in ListedFacets : founder[FounderField(f)] = ValidItems(f)

\* C20 (as claimed): a record with an undeclared enum name fails its own
\* mapping only: it is neither in the timeline nor in a facet of the
\* Founder, and it does not make the run fail.
C20_UndeclaredEnumIsolated ==
    /\ Merged =>
          \A i \in 1..Len(timeline) :
              /\ timeline[i].event_type \in EventTypeNames
              /\ timeline[i].data_type \in DataTypeNames
    /\ pc = "returned" =>
          /\ \A i \in 1..Len(founder.traits) :
                /\ founder.traits[i].category \in TraitCategoryNames
                /\ founder.traits[i].origin \in TraitOriginNames
          /\ \A f \in ListedFacets :
                \A i \in 1..Len(founder[FounderField(f)]) :
                    Get(founder[FounderField(f)][i], "data_type", "FACTUAL")
                        \in DataTypeNames
          /\ founder.emotional_intelligence.data_type \in DataTypeNames
    /\ (AllReturned /\ pc = "raised") => SomeElementMalformed

\* C21 (as claimed): when a concurrent task uses up its retries after
\* siblings have completed, the results that the failure handler of
\* extract_founder_data sees hold the answers of those siblings; a run that
\* fails returns nothing.
C21_HandlerSeesPartialResults ==
    pc = "raised" =>
        /\ founder = NoFounder
        /\ failure.origin \in ModelledFacets =>
              \A i \in 1..Len(ac_keys) :
                  /\ ac_keys[i] \in DOMAIN results
                  /\ results[ac_keys[i]] = ac_results[ac_keys[i]]


\* C22 (as claimed): a transcript of two short paragraphs, run with the
\* default budget against a service that answers each timeline request
\* with one event (dated 1995 or 2008) and the other facets with empty
\* arrays, gives a Founder whose timeline is the two events, 1995 then
\* 2008, with empty facets and the empty EmotionalIntelligence.
C22_TwoParagraphScenario ==
    (env = "scenario" /\ pc \in {"returned", "raised"}) =>
        /\ pc = "returned"
        /\ Dates(founder.timeline) = <<Date1995, Date2008>>
        /\ \A f \in FacetNames \ {"emotional_intelligence"} :
              founder[FounderField(f)] = <<>>
        /\ founder.emotional_intelligence = EmptyEI


Ended == pc \in {"returned", "raised"}

\* A run that has ended returned a Founder or raised a failure, never
\* neither; a run that has not ended has a step to take: the return of a
\* completion call it waits for, or the code that follows one.
EndsProperly ==
    /\ pc = "returned" => founder # NoFounder /\ failure = NoFailure
    /\ pc = "raised" => founder = NoFounder /\ failure # NoFailure
    /\ ~Ended => ENABLED Next

\* C23: if every completion call returns, every run of extract_founder_data
\* ends, by returning a Founder or by raising the failure that aborted it,
\* and never by returning nothing.
C23_RunTerminates == [](EndsProperly) /\ <>Ended

\* A run over three chunks that returned a Founder after its basic-info
\* call had failed twice.
C23_Witness ==
    /\ pc = "returned" /\ founder # NoFounder
    /\ basic_call.attempt = 3
    /\ Len(tl_calls) = 3


\* extract_all_components has just created its tasks: none has had an
\* answer yet.
FanoutIssued ==
    /\ pc = "fanout"
    /\ done_queue = <<>>
    /\ \A f \in DOMAIN tasks : tasks[f].attempt = 0

\* C29: the fan-out issues exactly nine facet requests, one per facet and
\* none twice, and they are all in flight together: every request is
\* pending when the last one has been issued.
C29_NineConcurrentRequests ==
    FanoutIssued =>
        /\ Len(FacetTasks) = 9
        /\ \A i, j \in 1..Len(FacetTasks) :
              FacetTasks[i] = FacetTasks[j] => i = j
        /\ DOMAIN tasks \subseteq FacetNames
        /\ \A f \in DOMAIN tasks : tasks[f].status = "running"

\* The same, with the number of requests the task list holds.
C29_TenConcurrentRequests ==
    FanoutIssued =>
        /\ Len(FacetTasks) = 10
        /\ \A i, j \in 1..Len(FacetTasks) :
              FacetTasks[i] = FacetTasks[j] => i = j
        /\ DOMAIN tasks \subseteq FacetNames
        /\ \A f \in DOMAIN tasks : tasks[f].status = "running"

\* A facet's pair has been stored by the fan-in loop.
Stored(f) == f \in DOMAIN ac_results

\* C30: the fan-in stores a pair only for a task that was awaited and had
\* succeeded, once and under the name of its facet; no stored pair is
\* lost or replaced by another facet's; and when the fan-out succeeds the
\* mapping holds one entry per requested facet, the parsed answer of that
\* facet's own request.
C30_FanInWritesOncePerFacet ==
    pc \in {"fanout", "assemble", "returned", "raised"} =>
        /\ DOMAIN ac_results \subseteq DOMAIN tasks
        /\ \A f \in DOMAIN ac_results :
              /\ tasks[f].status = "returned" /\ ~InQueue(f)
              /\ tasks[f].value.extraction_type = f
              /\ ac_results[f] = tasks[f].value.data
        /\ \A f \in DOMAIN tasks :
              tasks[f].status = "returned" /\ ~InQueue(f) => Stored(f)
        /\ Len(ac_keys) = Cardinality(DOMAIN ac_results)
        /\ \A i \in 1..Len(ac_keys) : Stored(ac_keys[i])
        /\ \A i, j \in 1..Len(ac_keys) : ac_keys[i] = ac_keys[j] => i = j
        /\ pc \in {"assemble", "returned"} =>
              /\ DOMAIN results = ModelledFacets
              /\ Len(ac_keys) = Cardinality(ModelledFacets)
              /\ \A f \in ModelledFacets : results[f] = tasks[f].value.data

\* The tasks completed in an order other than that of their creation, one
\* of them after a retry, each answered with records of its own, and the
\* mapping handed to the assembly holds the three answers.
C30_Witness ==
    /\ pc = "assemble"
    /\ ac_keys = <<"beliefs", "emotional_intelligence", "traits">>
    /\ tasks["beliefs"].attempt = 2
    /\ results["traits"] = FacetDocFull("traits")
    /\ results["beliefs"] = FacetDocFull("beliefs")
    /\ results["emotional_intelligence"] = FacetDocFull("emotional_intelligence")

\* C31: a run makes one basic-info extraction, a single call with its own
\* retries whose prompt is cut from chunk 0; no request for basic
\* information is made for a later chunk or by any other call of the run,
\* and the BasicInfo of the run is the one mapped from that call's answer.
C31_BasicInfoOnceFromFirstChunk ==
    pc # "start" =>
        /\ basic_call.prompt = BasicPrompt(chunks[1])
        /\ basic_call.attempt \in 0..DefaultMaxRetries
        /\ pc # "basic" =>
              /\ basic_call.status \in {"returned", "raised"}
              /\ basic_call.attempt >= 1
        /\ \A i \in 1..Len(tl_calls) : tl_calls[i].prompt.kind = "timeline"
        /\ \A f \in DOMAIN tasks : tasks[f].prompt.kind # "basic_info"
        /\ basic_info # NoValue =>
              /\ basic_call.status = "returned"
              /\ basic_info = MapBasicInfo(basic_call.value)

\* A run over three chunks that differ in their first tokens returned its
\* Founder; the basic-info call had answered at its second attempt.
C31_Witness ==
    /\ pc = "returned"
    /\ Len(chunks) = 3
    /\ basic_call.attempt = 2
    /\ \A i \in 2..Len(chunks) : BasicPrompt(chunks[i]) # basic_call.prompt
    /\ Len(tl_calls) = 3

\* The attempts made so far by the timeline calls and by the tasks of the
\* fan-out.
RECURSIVE TimelineAttempts(_)
TimelineAttempts(calls) ==
    IF calls = <<>> THEN 0 ELSE Head(calls).attempt + TimelineAttempts(Tail(calls))

RECURSIVE FacetAttempts(_, _)
FacetAttempts(ts, F) ==
    IF F = {} THEN 0
    ELSE LET f == CHOOSE g \in F : TRUE
         IN  ts[f].attempt + FacetAttempts(ts, F \ {f})

\* The requests made to the completion service so far in the run.
RunAttempts(basic, calls, ts) ==
    basic.attempt + TimelineAttempts(calls) + FacetAttempts(ts, DOMAIN ts)

\* Each call has made at most DefaultMaxRetries attempts, and there is at
\* most one timeline call per chunk.
AttemptsBounded ==
    /\ basic_call.attempt <= DefaultMaxRetries
    /\ pc # "start" => Len(tl_calls) <= Len(chunks)
    /\ \A i \in 1..Len(tl_calls) : tl_calls[i].attempt <= DefaultMaxRetries
    /\ \A f \in DOMAIN tasks : tasks[f].attempt <= DefaultMaxRetries
    /\ RunAttempts(basic_call, tl_calls, tasks)
          <= DefaultMaxRetries * (1 + Len(chunks) + Cardinality(DOMAIN tasks))

\* A step of the run makes at most one request, which counts for the call
\* that made it and for no other: the count of a call never moves but by
\* its own attempt, a call that ended makes no attempt, and a call begins
\* with no attempt made.
BudgetsIndependent ==
    /\ RunAttempts(basic_call', tl_calls', tasks')
          <= RunAttempts(basic_call, tl_calls, tasks) + 1
    /\ basic_call'.attempt >= basic_call.attempt
    /\ basic_call.status # "running" => basic_call'.attempt = basic_call.attempt
    /\ Len(tl_calls') >= Len(tl_calls)
    /\ \A i \in 1..Len(tl_calls) :
          /\ tl_calls'[i].attempt >= tl_calls[i].attempt
          /\ tl_calls[i].status # "running" => tl_calls'[i].attempt = tl_calls[i].attempt
    /\ \A i \in (Len(tl_calls) + 1)..Len(tl_calls') : tl_calls'[i].attempt = 0
    /\ \A f \in DOMAIN tasks :
          /\ tasks'[f].attempt >= tasks[f].attempt
          /\ tasks[f].status # "running" => tasks'[f].attempt = tasks[f].attempt

\* C37: the requests of a run are bounded: at most DefaultMaxRetries (3)
\* for the basic information, 3 for each chunk's timeline and 3 for each
\* concurrent facet, and each call spends its own budget only: a failed
\* attempt of one call never counts against another.
C37_AttemptsBounded == [](AttemptsBounded) /\ [][BudgetsIndependent]_vars

\* The basic-info call answered at its third attempt, the timeline call
\* of the first of three chunks used up its attempts, the call of the
\* second chunk still made three of its own and the call of the third a
\* single one, as did each task of the fan-out.
C37_Witness ==
    /\ pc = "returned"
    /\ basic_call.attempt = DefaultMaxRetries
    /\ Len(chunks) = 3 /\ Len(tl_calls) = 3
    /\ tl_calls[1].status = "raised" /\ tl_calls[1].attempt = DefaultMaxRetries
    /\ tl_calls[2].status = "returned" /\ tl_calls[2].attempt = DefaultMaxRetries
    /\ tl_calls[3].attempt = 1
    /\ \A f \in DOMAIN tasks : tasks[f].attempt = 1

----------------------------------------------------------------------------
(* Properties of the assembly of the Founder (SpecAssemble).               *)

\* C16: a facet whose key is absent from the collected results becomes the
\* empty default in the Founder (the empty EmotionalIntelligence, an empty
\* sequence for a list facet), and an absent key never makes the assembly
\* fail.
C16_AbsentFacetDefaults ==
    /\ pc = "returned" =>
          /\ "emotional_intelligence" \notin DOMAIN results =>
                founder.emotional_intelligence = EmptyEI
          /\ \A f \in FacetNames \ {"emotional_intelligence"} :
                f \notin DOMAIN results => founder[FounderField(f)] = <<>>
          /\ \A f \in DOMAIN results \ {"emotional_intelligence"} :
                founder[FounderField(f)] = Get(results[f], ListFacet(f).key, <<>>)
    /\ pc = "raised" =>
          /\ "traits" \in DOMAIN results
          /\ results["traits"] = MalformedTraitsDoc
          /\ failure.origin = "assemble"

\* A Founder built from results that hold the habits alone.
C16_Witness ==
    /\ pc = "returned"
    /\ DOMAIN results = {"habits"}
    /\ founder.emotional_intelligence = EmptyEI
    /\ founder.traits = <<>> /\ founder.anecdotes = <<>>
    /\ Len(founder.habits) = 1

----------------------------------------------------------------------------
(* Properties of the merge of the timeline (SpecMerge).                    *)

\* C12 (as claimed): two lists of events with the same set of distinct
\* events are merged into the same timeline, events of equal date
\* included.
C12_MergeOrderInsensitive ==
    (/\ mg.ran = <<TRUE, TRUE>>
     /\ PySet(mg.inputs[1]) = PySet(mg.inputs[2])) =>
        mg.outputs[1] = mg.outputs[2]

----------------------------------------------------------------------------
(* Properties of the list extractors (SpecExtract).                        *)

Items(x) == Get(x.result, Extractor(x.fn).key, <<>>)

LacksRequired(x, i) == ~(Extractor(x.fn).required \subseteq DOMAIN Items(x)[i])

Mapped(sch, d) == IF sch.fn = "extract_timeline" THEN MapEvent(d) ELSE MapRecord(sch, d)

\* C18 (as claimed): given an array of 3 elements of which exactly one
\* lacks a required field, every list extractor returns the 2 valid
\* records in their order, and does not raise.
C18_ExtractorSkipsMalformed ==
    (/\ ex.status \in {"returned", "raised"}
     /\ Len(Items(ex)) = 3
     /\ \E i \in 1..3 :
           /\ LacksRequired(ex, i)
           /\ \A j \in (1..3) \ {i} : RecordMaps(Extractor(ex.fn), Items(ex)[j])) =>
        /\ ex.status = "returned"
        /\ \A i \in 1..3 :
              LacksRequired(ex, i) =>
                 ex.value = [j \in 1..2 |->
                                Mapped(Extractor(ex.fn),
                                       Items(ex)[IF j < i THEN j ELSE j + 1])]

----------------------------------------------------------------------------
(* Properties of transcribe_audio (SpecTranscribe).                        *)

InvalidKey(msg) == Contains(msg, <<"Invalid", "API", "key">>)

\* C24: a failed attempt whose message holds "Invalid API key" is the last
\* one, whatever its number: the function has returned None, nothing was
\* slept after it and no attempt followed it.
C24_InvalidKeyIsFatal ==
    \A k \in 1..Len(ta.log) :
        InvalidKey(ta.log[k].msg) =>
            /\ k = Len(ta.log)
            /\ ta.retries = k
            /\ ta.status = "returned" /\ ta.value = PyNone
            /\ ta.log[k].wait = 0

\* The key is refused at the second attempt, in a message that also
\* speaks of a timeout.
C24_Witness ==
    /\ Len(ta.log) = 2
    /\ InvalidKey(ta.log[2].msg)
    /\ Contains(lower(ta.log[2].msg), <<"timeout">>)
    /\ ta.status = "returned"

\* Failed attempts a backoff is computed for, when the formula is looked at
\* alone.
MaxFailures == 6

\* The error classes that are waited after: a message that speaks of a
\* timeout is a timeout error, whatever else it says.
IsTimeout(msg) == ~InvalidKey(msg) /\ Contains(lower(msg), <<"timeout">>)
IsRateLimit(msg) ==
    ~InvalidKey(msg) /\ ~IsTimeout(msg) /\ Contains(lower(msg), <<"rate", "limit">>)
IsOther(msg) == ~InvalidKey(msg) /\ ~IsTimeout(msg) /\ ~IsRateLimit(msg)

SameClass(m1, m2) ==
    \/ IsTimeout(m1) /\ IsTimeout(m2)
    \/ IsRateLimit(m1) /\ IsRateLimit(m2)
    \/ IsOther(m1) /\ IsOther(m2)

\* C25: after the r-th failed attempt a timeout error waits 30 seconds, a
\* rate-limit error 30 * 2^r capped at 300, any other error 10 * 2^r
\* capped at 120; of two failures of one class the later never waits less,
\* and it waits more unless the class is the timeout or the cap is reached.
C25_BackoffByErrorClass ==
    /\ \A r \in 1..Len(ta.log) :
          LET e == ta.log[r]
          IN  /\ IsTimeout(e.msg) => e.wait = 30
              /\ IsRateLimit(e.msg) => e.wait = Min(30 * (2 ^ r), 300)
              /\ IsOther(e.msg) => e.wait = Min(10 * (2 ^ r), 120)
    /\ \A r, s \in 1..Len(ta.log) :
          (r < s /\ SameClass(ta.log[r].msg, ta.log[s].msg)) =>
              /\ ta.log[r].wait <= ta.log[s].wait
              /\ IsTimeout(ta.log[r].msg) \/ ta.log[r].wait < ta.log[s].wait
    /\ \A r \in 1..MaxFailures :
          /\ WaitTime("rate_limit", r) <= 300
          /\ WaitTime("other", r) <= 120
          /\ WaitTime("rate_limit", r) <= WaitTime("rate_limit", r + 1)
          /\ WaitTime("other", r) <= WaitTime("other", r + 1)

\* Three rate-limit errors in a row: 60, 120 and 240 seconds.
C25_Witness ==
    /\ Len(ta.log) = 3
    /\ \A r \in 1..3 : IsRateLimit(ta.log[r].msg)
    /\ ta.log[1].wait = 60 /\ ta.log[3].wait = 240
    /\ ta.status = "returned"

\* The transcription requests made so far: the failed ones and the one
\* that gave the response returned.
Attempts == Len(ta.log) + (IF ta.value = Response THEN 1 ELSE 0)

\* C32: transcribe_audio makes at most MAX_RETRIES requests for a file: it
\* returns the first valid response, counts a response without 'results'
\* as a failed attempt like any other error, goes on only while fewer than
\* MAX_RETRIES attempts have failed and returns None at the MAX_RETRIES-th
\* failure.
C32_AtMostMaxRetriesAttempts ==
    /\ ta.retries = Len(ta.log)
    /\ Attempts <= MAX_RETRIES
    /\ ta.status = "running" => ta.retries < MAX_RETRIES
    /\ ta.retries = MAX_RETRIES => ta.status = "returned" /\ ta.value = PyNone
    /\ ta.value = Response => ta.status = "returned"
    /\ \A k \in 1..Len(ta.log) :
          ta.log[k].msg = InvalidResponseMsg =>
              ta.log[k].wait = Min(10 * (2 ^ k), 120)

\* Three attempts failed, the second with a response without 'results':
\* None is returned.
C32_Witness ==
    /\ Len(ta.log) = MAX_RETRIES
    /\ ta.log[2].msg = InvalidResponseMsg
    /\ ta.log[3].msg = <<"connection", "reset">>
    /\ ta.status = "returned" /\ ta.value = PyNone

\* C33: a file larger than 300 MB is skipped, None is returned without a
\* request; a file of 300 MB or less is attempted.
C33_LargeFileSkipped ==
    ta.status # "called" =>
        IF ta.file_size * 1024 * 1024 > MAX_FILE_SIZE
        THEN ta.status = "returned" /\ ta.value = PyNone /\ Attempts = 0
        ELSE ta.status = "running" \/ Attempts >= 1

----------------------------------------------------------------------------
(* Properties of the transcription batch (SpecBatch).                      *)

\* The files run r has sent to transcribe_audio.
Sent(r) == {tb.sent[r][k] : k \in 1..Len(tb.sent[r])}

\* C26: a run never sends a file of the progress set it loaded; a file
\* joins the progress set, and the progress file, only in the run that
\* transcribed it and wrote its output; a file whose transcription failed
\* joins neither, and the next run that is not interrupted sends it again.
C26_BatchResumable ==
    tb.pc \in {"loop", "ended"} =>
        /\ Sent(tb.run) \cap tb.loaded = {}
        /\ \A f \in tb.completed_files \ tb.loaded :
              f \in tb.successes[tb.run] /\ f \in tb.outputs
        /\ tb.progress.files \subseteq tb.loaded \cup tb.successes[tb.run]
        /\ tb.progress.files \subseteq tb.outputs
        /\ tb.failures[tb.run] \cap (tb.completed_files \cup tb.progress.files) = {}
        /\ (tb.run > 1 /\ tb.pc = "ended" /\ ~tb.interrupted[tb.run]) =>
              tb.failures[tb.run - 1] \subseteq Sent(tb.run)

\* A second run that found a progress file, passed over a file of it, and
\* transcribed a file that had failed in the first run.
C26_Witness ==
    /\ tb.run = 2 /\ tb.pc = "ended"
    /\ tb.loaded # {}
    /\ Len(tb.sent[2]) < Len(mp3_files)
    /\ tb.failures[1] \cap tb.successes[2] # {}
    /\ tb.failures[1] \cap tb.progress.files # {}

----------------------------------------------------------------------------
(* Properties of the downloader (SpecDownload).                            *)

\* The downloads in flight: requested and not yet ended.
InFlight == {k \in 1..Len(dl.tasks) : dl.tasks[k].status \in {"fetching", "writing"}}

BatchBounded == Cardinality(InFlight) <= CONCURRENT_DOWNLOADS

\* While a batch is in progress every episode before it is recorded, and
\* the tracking file has been saved once for each batch before it.
BatchesInOrder ==
    dl.pc = "batch" =>
        /\ dl.i <= Len(dl.done)
        /\ Len(dl.done) = dl.i + dl.awaited - 1
        /\ dl.saves * CONCURRENT_DOWNLOADS = dl.i

\* The episodes of the batch that was saved last.
SavedBatch ==
    {e \in 1..Len(dl.episodes) :
        /\ (dl.saves - 1) * CONCURRENT_DOWNLOADS < e
        /\ e <= dl.saves * CONCURRENT_DOWNLOADS}

\* The tracking file holds each episode of the batch saved last in the
\* list of its result.
BatchRecorded ==
    \A e \in SavedBatch :
        IF dl.done[e] THEN InList(dl.saved.downloaded, dl.episodes[e])
        ELSE InList(dl.saved.failed, dl.episodes[e])

\* C27: at most CONCURRENT_DOWNLOADS downloads are in flight, a batch
\* starts when every episode of the batches before it is done and
\* recorded, and the tracking file saved after a batch lists each episode
\* of the batch as downloaded if its download succeeded, as failed if not.
C27_DownloadsInBatches == BatchBounded /\ BatchesInOrder /\ BatchRecorded

\* C38 (as claimed): no title is both in the downloaded list and in the
\* failed list, in the tracking data and in the tracking file, feeds with
\* two episodes of one title included.
C38_ListsDisjoint ==
    \A t \in Titles :
        /\ ~(InList(dl.tracking.downloaded, t) /\ InList(dl.tracking.failed, t))
        /\ ~(InList(dl.saved.downloaded, t) /\ InList(dl.saved.failed, t))

\* C39 (as claimed): when download_all has ended, the file of every title
\* recorded as downloaded is on disk and complete, and no partial file is
\* left, however the downloads of a batch interleave.
C39_DownloadedFilesComplete ==
    dl.pc = "done" =>
        \A t \in Titles :
            /\ InList(dl.saved.downloaded, t) => dl.disk[t] = "complete"
            /\ dl.disk[t] # "partial"

====
